---- MODULE Spec2Model ----
(***************************************************************************)
(* Verification model of xanespy's beamline script generators              *)
(* (src/beamlines.py): the Zoneplate/Detector position model, the          *)
(* ssrl6_xanes_script sequencer with its ScanInfo companion file, and the  *)
(* sector8_xanes_script sequencer; and of the frame animation of           *)
(* GtkFramesetPlotter (src/gtk_plotter.py).                                *)
(*                                                                         *)
(* Numbers of the program are Python floats (IEEE-754 binary64).  They are *)
(* modelled exactly: a number is a dyadic rational  (+/-) m * 2^e  whose   *)
(* magnitude m is a natural of any size kept as a limb sequence, and every  *)
(* arithmetic operation of the program is the exact operation followed by  *)
(* rounding to FloatBits significant bits, ties to even.  Exponent range   *)
(* (overflow, subnormals) is not modelled: the inputs are small.           *)
(***************************************************************************)
EXTENDS Integers, Sequences, FiniteSets, TLC

(***************************************************************************)
(* Naturals of any size: sequences of limbs in base 2^LimbBits, least      *)
(* significant limb first, the last limb is not 0; zero is the empty       *)
(* sequence.                                                               *)
(***************************************************************************)
LimbBits == 12
Base == 2 ^ LimbBits

SetMax(S) == CHOOSE i \in S : \A j \in S : j <= i
SetMin(S) == CHOOSE i \in S : \A j \in S : i <= j

NatNorm(a) ==
    LET nz == {i \in 1..Len(a) : a[i] # 0}
    IN  IF nz = {} THEN <<>> ELSE SubSeq(a, 1, SetMax(nz))

RECURSIVE NatFromInt(_)
NatFromInt(n) ==
    IF n = 0 THEN <<>> ELSE <<n % Base>> \o NatFromInt(n \div Base)

RECURSIVE NatToInt(_)
NatToInt(a) ==
    IF a = <<>> THEN 0 ELSE a[1] + Base * NatToInt(Tail(a))

Limb(a, i) == IF i <= Len(a) THEN a[i] ELSE 0

RECURSIVE AddFrom(_, _, _, _)
AddFrom(a, b, i, c) ==
    IF i > Len(a) /\ i > Len(b)
    THEN (IF c = 0 THEN <<>> ELSE <<c>>)
    ELSE LET s == Limb(a, i) + Limb(b, i) + c
         IN  <<s % Base>> \o AddFrom(a, b, i + 1, s \div Base)

NatAdd(a, b) == AddFrom(a, b, 1, 0)

\* a - b for a >= b
RECURSIVE SubFrom(_, _, _, _)
SubFrom(a, b, i, c) ==
    IF i > Len(a) THEN <<>>
    ELSE LET s == Limb(a, i) - Limb(b, i) - c
         IN  <<s % Base>> \o SubFrom(a, b, i + 1, IF s < 0 THEN 1 ELSE 0)

NatSub(a, b) == NatNorm(SubFrom(a, b, 1, 0))

NatLess(a, b) ==
    IF Len(a) # Len(b) THEN Len(a) < Len(b)
    ELSE LET df == {i \in 1..Len(a) : a[i] # b[i]}
         IN  df # {} /\ a[SetMax(df)] < b[SetMax(df)]

\* a * k for one limb k
RECURSIVE MulSmallFrom(_, _, _, _)
MulSmallFrom(a, k, i, c) ==
    IF i > Len(a) THEN (IF c = 0 THEN <<>> ELSE <<c>>)
    ELSE LET s == a[i] * k + c
         IN  <<s % Base>> \o MulSmallFrom(a, k, i + 1, s \div Base)

MulSmall(a, k) == IF k = 0 THEN <<>> ELSE MulSmallFrom(a, k, 1, 0)

ShlLimbs(a, q) == IF a = <<>> \/ q <= 0 THEN a ELSE [i \in 1..q |-> 0] \o a

RECURSIVE MulFrom(_, _, _)
MulFrom(a, b, j) ==
    IF j > Len(b) THEN <<>>
    ELSE NatAdd(MulSmall(a, b[j]), ShlLimbs(MulFrom(a, b, j + 1), 1))

NatMul(a, b) == IF a = <<>> \/ b = <<>> THEN <<>> ELSE MulFrom(a, b, 1)

\* bit level: length in bits, bit i (from 0), shifts by k bits
SmallBitLen(x) == SetMin({n \in 0..LimbBits : x < 2 ^ n})
NatBitLen(a) ==
    IF a = <<>> THEN 0 ELSE (Len(a) - 1) * LimbBits + SmallBitLen(a[Len(a)])
NatBit(a, i) == (Limb(a, (i \div LimbBits) + 1) \div (2 ^ (i % LimbBits))) % 2
NatShl(a, k) ==
    IF k <= 0 THEN a
    ELSE ShlLimbs(MulSmall(a, 2 ^ (k % LimbBits)), k \div LimbBits)
NatShr(a, k) ==
    IF k <= 0 THEN a
    ELSE LET q == k \div LimbBits
             r == k % LimbBits
         IN  IF q >= Len(a) THEN <<>>
             ELSE NatNorm([i \in 1..(Len(a) - q) |->
                     (a[i + q] \div (2 ^ r))
                     + (Limb(a, i + q + 1) % (2 ^ r)) * (2 ^ (LimbBits - r))])
\* a mod 2^k # 0
NatLowBits(a, k) ==
    k > 0 /\ ( \/ \E i \in 1..(k \div LimbBits) : Limb(a, i) # 0
               \/ Limb(a, (k \div LimbBits) + 1) % (2 ^ (k % LimbBits)) # 0 )
\* the number of low zero bits of a # 0
NatLowZeros(a) ==
    LET i == SetMin({j \in 1..Len(a) : a[j] # 0})
    IN  (i - 1) * LimbBits + SetMin({n \in 0..LimbBits : a[i] % (2 ^ (n + 1)) # 0})

\* long division: quotient and remainder of N by d (d # 0), over the bits
\* hi down to lo of N, entered with remainder r
RECURSIVE DivBits(_, _, _, _, _)
DivBits(N, d, hi, lo, r) ==
    IF hi < lo THEN [q |-> <<>>, r |-> r]
    ELSE IF hi = lo
    THEN LET r2 == NatAdd(NatShl(r, 1), IF NatBit(N, hi) = 1 THEN <<1>> ELSE <<>>)
         IN  IF NatLess(r2, d) THEN [q |-> <<>>, r |-> r2]
             ELSE [q |-> <<1>>, r |-> NatSub(r2, d)]
    ELSE LET mid == (hi + lo + 1) \div 2
             h   == DivBits(N, d, hi, mid, r)
             l   == DivBits(N, d, mid - 1, lo, h.r)
         IN  [q |-> NatAdd(NatShl(h.q, mid - lo), l.q), r |-> l.r]

NatDivMod(N, d) == DivBits(N, d, NatBitLen(N) - 1, 0, <<>>)

(***************************************************************************)
(* Exact dyadic rationals  [neg, m, e]  =  (+/-) m * 2^e, canonical: m is  *)
(* odd, or the number is zero = [neg |-> FALSE, m |-> <<>>, e |-> 0].      *)
(***************************************************************************)
Dy(neg, m, e) ==
    LET n == NatNorm(m)
    IN  IF n = <<>> THEN [neg |-> FALSE, m |-> <<>>, e |-> 0]
        ELSE LET k == NatLowZeros(n)
             IN  [neg |-> neg, m |-> NatShr(n, k), e |-> e + k]

DyZero == Dy(FALSE, <<>>, 0)
DyInt(n) == IF n < 0 THEN Dy(TRUE, NatFromInt(-n), 0) ELSE Dy(FALSE, NatFromInt(n), 0)
DyPow2(k) == Dy(FALSE, <<1>>, k)
DyNeg(a) == IF a.m = <<>> THEN a ELSE [a EXCEPT !.neg = ~a.neg]
DyAbs(a) == [a EXCEPT !.neg = FALSE]

DyAdd(a, b) ==
    IF a.m = <<>> THEN b ELSE IF b.m = <<>> THEN a ELSE
    LET e  == IF a.e < b.e THEN a.e ELSE b.e
        am == NatShl(a.m, a.e - e)
        bm == NatShl(b.m, b.e - e)
    IN  IF a.neg = b.neg THEN Dy(a.neg, NatAdd(am, bm), e)
        ELSE IF NatLess(am, bm) THEN Dy(b.neg, NatSub(bm, am), e)
        ELSE Dy(a.neg, NatSub(am, bm), e)

DySub(a, b) == DyAdd(a, DyNeg(b))
DyMul(a, b) == Dy(a.neg # b.neg, NatMul(a.m, b.m), a.e + b.e)

\* a <= b
DyLeq(a, b) == ~DySub(b, a).neg

(***************************************************************************)
(* Python float arithmetic: the exact result rounded to FloatBits          *)
(* significant bits, round half to even.                                   *)
(***************************************************************************)
FloatBits == 53

Round(a) ==
    LET n == NatBitLen(a.m)
    IN  IF n <= FloatBits THEN a
        ELSE LET k    == n - FloatBits
                 high == NatShr(a.m, k)
                 up   == NatBit(a.m, k - 1) = 1
                         /\ (NatLowBits(a.m, k - 1) \/ NatBit(high, 0) = 1)
             IN  Dy(a.neg, IF up THEN NatAdd(high, <<1>>) ELSE high, a.e + k)

FAdd(a, b) == Round(DyAdd(a, b))
FSub(a, b) == Round(DySub(a, b))
FMul(a, b) == Round(DyMul(a, b))

\* a / b for b # 0: FloatBits + 2 quotient bits and a sticky bit, then rounded
FDiv(a, b) ==
    IF a.m = <<>> THEN DyZero
    ELSE LET s   == FloatBits + 2 + NatBitLen(b.m) - NatBitLen(a.m)
             sh  == IF s > 0 THEN s ELSE 0
             qr  == NatDivMod(NatShl(a.m, sh), b.m)
             m2  == NatAdd(NatShl(qr.q, 1), IF qr.r = <<>> THEN <<>> ELSE <<1>>)
         IN  Round(Dy(a.neg # b.neg, m2, a.e - b.e - sh - 1))

(***************************************************************************)
(* str.format of a number with a fixed number of decimals ('{:.2f}',       *)
(* '{:07.1f}'): the exact value rounded half-even to that many decimals.   *)
(* The text is kept as its sign and its digits read as one integer         *)
(* ('08950.0' is [neg |-> FALSE, n |-> 89500]).                            *)
(***************************************************************************)
RoundInt(a) ==
    IF a.e >= 0 THEN NatToInt(NatShl(a.m, a.e))
    ELSE LET k    == -a.e
             high == NatShr(a.m, k)
             up   == NatBit(a.m, k - 1) = 1
                     /\ (NatLowBits(a.m, k - 1) \/ NatBit(high, 0) = 1)
         IN  NatToInt(IF up THEN NatAdd(high, <<1>>) ELSE high)

FmtFixed(a, digits) ==
    [neg |-> a.neg, n |-> RoundInt(DyMul(DyAbs(a), DyInt(10 ^ digits)))]

(***************************************************************************)
(* Optional arguments (None, or a value).                                  *)
(***************************************************************************)
None == <<>>
Some(v) == <<v>>

(***************************************************************************)
(* Zoneplate / Detector: the position model.                               *)
(***************************************************************************)
\* namedtuples of the program
ZoneplatePoint(x, y, z, energy) ==
    [x |-> DyInt(x), y |-> DyInt(y), z |-> DyInt(z), energy |-> DyInt(energy)]
position(x, y, z) == [x |-> x, y |-> y, z |-> z]

\* seeded fault: only the absence of both arguments is refused
ZoneplateInit_AcceptsBoth(start, z_step, end) ==
    IF z_step = None /\ end = None
    THEN [raised |-> "ValueError", self |-> None]
    ELSE IF z_step = None
    THEN LET e  == end[1]
             dE == FSub(e.energy, start.energy)
         IN  IF dE = DyZero
             THEN [raised |-> "ZeroDivisionError", self |-> None]
             ELSE [raised |-> "",
                   self |-> Some([start |-> start,
                                  step |-> [x |-> FDiv(FSub(e.x, start.x), dE),
                                            y |-> FDiv(FSub(e.y, start.y), dE),
                                            z |-> FDiv(FSub(e.z, start.z), dE)]])]
    ELSE [raised |-> "",
          self |-> Some([start |-> start,
                         step |-> [x |-> DyZero, y |-> DyZero, z |-> z_step[1]]])]

\* seeded fault: a z step moves every axis
ZoneplateInit_StepOnEveryAxis(start, z_step, end) ==
    IF (z_step = None) = (end = None)
    THEN [raised |-> "ValueError", self |-> None]
    ELSE IF z_step = None
    THEN LET e  == end[1]
             dE == FSub(e.energy, start.energy)
         IN  IF dE = DyZero
             THEN [raised |-> "ZeroDivisionError", self |-> None]
             ELSE [raised |-> "",
                   self |-> Some([start |-> start,
                                  step |-> position(FDiv(FSub(e.x, start.x), dE),
                                                    FDiv(FSub(e.y, start.y), dE),
                                                    FDiv(FSub(e.z, start.z), dE))])]
    ELSE [raised |-> "",
          self |-> Some([start |-> start,
                         step |-> position(z_step[1], z_step[1], z_step[1])])]

\* seeded fault: a division by zero gives an infinite step instead of raising
ZoneplateInit_InfiniteStep(start, z_step, end) ==
    IF (z_step = None) = (end = None)
    THEN [raised |-> "ValueError", self |-> None]
    ELSE IF z_step = None
    THEN LET e  == end[1]
             dE == FSub(e.energy, start.energy)
             q(d) == IF dE = DyZero THEN [neg |-> d.neg, inf |-> TRUE]
                     ELSE FDiv(d, dE)
         IN  [raised |-> "",
              self |-> Some([start |-> start,
                             step |-> position(q(FSub(e.x, start.x)),
                                               q(FSub(e.y, start.y)),
                                               q(FSub(e.z, start.z)))])]
    ELSE [raised |-> "",
          self |-> Some([start |-> start,
                         step |-> position(DyZero, DyZero, z_step[1])])]

\* Zoneplate.__init__: the exception raised ("" when none) and the object
ZoneplateInit(start, z_step, end) ==
    IF z_step = None /\ end = None
    THEN [raised |-> "ValueError", self |-> None]
    ELSE IF z_step # None /\ end # None
    THEN [raised |-> "ValueError", self |-> None]
    ELSE IF z_step = None
    THEN LET e  == end[1]
             dE == FSub(e.energy, start.energy)
         IN  IF dE = DyZero
             THEN [raised |-> "ZeroDivisionError", self |-> None]
             ELSE [raised |-> "",
                   self |-> Some([start |-> start,
                                  step |-> position(FDiv(FSub(e.x, start.x), dE),
                                                    FDiv(FSub(e.y, start.y), dE),
                                                    FDiv(FSub(e.z, start.z), dE))])]
    ELSE [raised |-> "",
          self |-> Some([start |-> start,
                         step |-> position(DyZero, DyZero, z_step[1])])]

\* seeded fault: the step is applied to the energy, not to its offset from start
Position_NoOffset(self, energy) ==
    [x |-> FAdd(self.start.x, FMul(self.step.x, energy)),
     y |-> FAdd(self.start.y, FMul(self.step.y, energy)),
     z |-> FAdd(self.start.z, FMul(self.step.z, energy))]

\* seeded fault: the energy offset is truncated to whole eV
Position_WholeEv(self, energy) ==
    LET k == DyInt(RoundInt(DyAbs(FSub(energy, self.start.energy))))
        d == IF FSub(energy, self.start.energy).neg THEN DyNeg(k) ELSE k
    IN  [x |-> FAdd(self.start.x, FMul(self.step.x, d)),
         y |-> FAdd(self.start.y, FMul(self.step.y, d)),
         z |-> FAdd(self.start.z, FMul(self.step.z, d))]

\* Zoneplate.position
Position(self, energy) ==
    position(
        FAdd(self.start.x, FMul(self.step.x, FSub(energy, self.start.energy))),
        FAdd(self.start.y, FMul(self.step.y, FSub(energy, self.start.energy))),
        FAdd(self.start.z, FMul(self.step.z, FSub(energy, self.start.energy))))

(***************************************************************************)
(* ssrl6_xanes_script: one call, as a state machine.                       *)
(*   args       the arguments of the call                                  *)
(*   pc         where the call stands                                      *)
(*   dest       the lines written to the script file so far                *)
(*   scaninfo   the lines written to the ScanInfo file so far              *)
(*   scaninfo_file  "none" (never opened), "open" or "closed"              *)
(*   it, en     index of the current iteration / energy (loop positions)   *)
(*   fs_name    the loop variable of the iteration loop                    *)
(*   ref_first  the ABBA flag                                              *)
(*   raised     the exception that ended the call ("" when none)           *)
(*   reverse_positions  the ABBA flag of sector8_xanes_script              *)
(*   prior      what the earlier calls with the same arguments left        *)
(* and one use of a Zoneplate:                                             *)
(*   zp_args    the arguments of Zoneplate(...)                            *)
(*   zp_pc      "init" before the constructor ran, then "built" or "raised"*)
(*   zp         what the constructor gave (exception, object)              *)
(*   zp_calls   the position() calls made: energy and result of each       *)
(*   zp_zcalls  the z_position() calls made: energy and outcome of each    *)
(* and one GtkFramesetPlotter:                                             *)
(*   frame_animation  the attribute of that name (None while it is absent) *)
(*   animations       the FrameAnimation objects made so far               *)
(*   has_axes         create_axes has run (image_ax, xanes_ax, ... exist)  *)
(*   plot_raised      the exception that ended the last call ("" if none)  *)
(*   plot_log         the calls made on the plotter, in order              *)
(***************************************************************************)
VARIABLES args, pc, dest, scaninfo, scaninfo_file, it, en, fs_name, ref_first,
          raised, zp_args, zp_pc, zp, zp_calls,
          reverse_positions, prior, zp_zcalls,
          frame_animation, animations, has_axes, plot_raised, plot_log

script_vars == <<args, pc, dest, scaninfo, scaninfo_file, it, en, fs_name,
                 ref_first, raised, reverse_positions, prior>>
zp_vars == <<zp_args, zp_pc, zp, zp_calls, zp_zcalls>>
plot_vars == <<frame_animation, animations, has_axes, plot_raised, plot_log>>
vars == <<args, pc, dest, scaninfo, scaninfo_file, it, en, fs_name, ref_first,
          raised, zp_args, zp_pc, zp, zp_calls,
          reverse_positions, prior, zp_zcalls,
          frame_animation, animations, has_axes, plot_raised, plot_log>>

\* the plotter of the runs that do not use it: constructed, never called
PlotIdle ==
    /\ frame_animation = <<>>
    /\ animations = <<>>
    /\ has_axes = FALSE
    /\ plot_raised = ""
    /\ plot_log = <<>>

\* ---- bounds of the inputs
MaxEnergies == 3
MaxPositions == 2
MaxIterations == 2
MaxReps == 2

\* ---- lines of the script file
Cmt(text) == [op |-> "comment", text |-> text]
CmtN(text, n) == [op |-> "comment", text |-> text, n |-> n]
Sete(E) == [op |-> "sete", val |-> FmtFixed(E, 2)]
Moveto(axis, v) == [op |-> "moveto", axis |-> axis, val |-> FmtFixed(v, 2)]
Wait(n) == [op |-> "wait", n |-> n]
Collect(file) == [op |-> "collect", file |-> file]

\* pos_template
PosTemplate(p) == <<Moveto("x", p.x), Moveto("y", p.y), Moveto("z", p.z)>>
\* exposure_str
ExposureStr(exposure, binning) ==
    <<[op |-> "setexp", val |-> FmtFixed(exposure, 2)],
      [op |-> "setbinning", n |-> binning]>>
\* ref_template, sam_template: the file name, field by field
RefTemplate(name, energy, ctr, total) ==
    [kind |-> "ref", name |-> name, fov |-> -1, energy |-> FmtFixed(energy, 1),
     ctr |-> ctr, total |-> total]
SamTemplate(name, fov, energy, ctr, total) ==
    [kind |-> "sam", name |-> name, fov |-> fov, energy |-> FmtFixed(energy, 1),
     ctr |-> ctr, total |-> total]

\* ---- lines of the ScanInfo file
Info(key, val) == [key |-> key, val |-> val]
InfoFile(file) == [key |-> "file", file |-> file]

\* seeded fault: REFABBA says 1 whatever the mode
ScaninfoHeader_AlwaysAbba(abba_mode, repetitions, ref_repetitions) ==
    << Info("VERSION", 1), Info("ENERGY", 1), Info("TOMO", 0), Info("MOSAIC", 0),
       Info("MULTIEXPOSURE", 4), Info("NREPEATSCAN", 1), Info("WAITNSECS", 0),
       Info("NEXPOSURES", repetitions), Info("AVERAGEONTHEFLY", 0),
       Info("REFNEXPOSURES", ref_repetitions),
       Info("REF4EVERYEXPOSURES", repetitions),
       Info("REFABBA", 1),
       Info("REFAVERAGEONTHEFLY", 0), Info("MOSAICUP", 1), Info("MOSAICDOWN", 1),
       Info("MOSAICLEFT", 1), Info("MOSAICRIGHT", 1), Info("MOSAICOVERLAP", 20),
       Info("MOSAICCENTRALTILE", 1), Info("FILES", 0) >>

\* write_scaninfo_header (MOSAICOVERLAP 0.20 is kept in hundredths)
ScaninfoHeader(abba_mode, repetitions, ref_repetitions) ==
    << Info("VERSION", 1), Info("ENERGY", 1), Info("TOMO", 0), Info("MOSAIC", 0),
       Info("MULTIEXPOSURE", 4), Info("NREPEATSCAN", 1), Info("WAITNSECS", 0),
       Info("NEXPOSURES", repetitions), Info("AVERAGEONTHEFLY", 0),
       Info("REFNEXPOSURES", ref_repetitions),
       Info("REF4EVERYEXPOSURES", repetitions),
       Info("REFABBA", IF abba_mode THEN 1 ELSE 0),
       Info("REFAVERAGEONTHEFLY", 0), Info("MOSAICUP", 1), Info("MOSAICDOWN", 1),
       Info("MOSAICLEFT", 1), Info("MOSAICRIGHT", 1), Info("MOSAICOVERLAP", 20),
       Info("MOSAICCENTRALTILE", 1), Info("FILES", 0) >>

\* ---- sequences
Reverse(s) == [i \in 1..Len(s) |-> s[Len(s) + 1 - i]]
RECURSIVE Flatten(_)
Flatten(ss) == IF ss = <<>> THEN <<>> ELSE Head(ss) \o Flatten(Tail(ss))

\* seeded fault: the check is made for the wrong mode
SanityCheckFails_WrongMode(frame_rest, abba_mode) == frame_rest # 0 /\ ~abba_mode

\* ---- pieces of the body of ssrl6_xanes_script
\* the sanity check of the arguments (truthiness of frame_rest and abba_mode)
SanityCheckFails(frame_rest, abba_mode) == frame_rest # 0 /\ abba_mode

\* the file names of the reference frames of one energy, in loop order
RefFiles(a, name, E) ==
    [rep \in 1..a.ref_repetitions |->
        RefTemplate(name, E, rep - 1, a.ref_repetitions)]

\* seeded fault: the rest is taken after the reference frames
RefBlock_RestAfter(a, name, E, first) ==
    <<Cmt("Move to reference position")>>
    \o PosTemplate(a.reference_position)
    \o <<Cmt("Collect reference frames")>>
    \o ExposureStr(a.exposure, a.binning)
    \o [rep \in 1..a.ref_repetitions |-> Collect(RefFiles(a, name, E)[rep])]
    \o (IF a.frame_rest # 0 THEN <<Wait(a.frame_rest)>> ELSE <<>>)

\* seeded fault: without sample positions there is no reference block
RefBlock_OnlyWithSamples(a, name, E, first) ==
    IF Len(a.positions) = 0 THEN <<>>
    ELSE <<Cmt("Move to reference position")>>
         \o PosTemplate(a.reference_position)
         \o (IF a.frame_rest # 0 /\ first THEN <<Wait(a.frame_rest)>> ELSE <<>>)
         \o <<Cmt("Collect reference frames")>>
         \o ExposureStr(a.exposure, a.binning)
         \o [rep \in 1..a.ref_repetitions |-> Collect(RefFiles(a, name, E)[rep])]
         \o (IF a.frame_rest # 0 /\ ~first THEN <<Wait(a.frame_rest)>> ELSE <<>>)

\* ref_s: the commands of the reference block, as built (and not yet written)
RefBlock(a, name, E, first) ==
    <<Cmt("Move to reference position")>>
    \o PosTemplate(a.reference_position)
    \o (IF a.frame_rest # 0 /\ first THEN <<Wait(a.frame_rest)>> ELSE <<>>)
    \o <<Cmt("Collect reference frames")>>
    \o ExposureStr(a.exposure, a.binning)
    \o [rep \in 1..a.ref_repetitions |-> Collect(RefFiles(a, name, E)[rep])]
    \o (IF a.frame_rest # 0 /\ ~first THEN <<Wait(a.frame_rest)>> ELSE <<>>)

\* seeded fault: the positions are always walked forwards
PosList_Forward(positions, first) == positions

\* pos_list: the traversal order of the sample positions
PosList(positions, first) == IF first THEN positions ELSE Reverse(positions)

\* seeded fault: the index of the traversal slot, not of the position
PosIdx_Slot(first, idx, n) == idx

\* pos_idx, for the idx-th (from 0) element of pos_list, n = len(pos_list)
PosIdx(first, idx, n) == IF first THEN idx ELSE n - idx - 1

\* seeded fault: the repetition counter starts at 1
SamFiles_CountsFromOne(a, name, E, pos_idx) ==
    [rep \in 1..a.repetitions |->
        SamTemplate(name, pos_idx, E, rep, a.repetitions)]

\* seeded fault: the file name does not count the repetitions
SamFiles_NoCounter(a, name, E, pos_idx) ==
    [rep \in 1..a.repetitions |-> SamTemplate(name, pos_idx, E, 0, a.repetitions)]

\* the file names of the sample frames at one position of one energy
SamFiles(a, name, E, pos_idx) ==
    [rep \in 1..a.repetitions |->
        SamTemplate(name, pos_idx, E, rep - 1, a.repetitions)]

\* the commands written for the idx-th (from 0) element of pos_list
SampleBlock(a, name, E, first, idx) ==
    LET pos_list == PosList(a.positions, first)
        sam_pos  == pos_list[idx + 1]
        pos_idx  == PosIdx(first, idx, Len(pos_list))
    IN  <<CmtN("Move to sample position", pos_idx)>>
        \o PosTemplate(sam_pos)
        \o <<CmtN("Collect frames sample position", pos_idx)>>
        \o ExposureStr(a.exposure, a.binning)
        \o [rep \in 1..a.repetitions |-> Collect(SamFiles(a, name, E, pos_idx)[rep])]

\* seeded fault: a reversed walk skips the position the stage is already at
SampleBlocks_SkipsRevisit(a, name, E, first) ==
    Flatten([k \in 1..Len(a.positions) |->
                IF ~first /\ k = 1 THEN <<>>
                ELSE SampleBlock(a, name, E, first, k - 1)])

\* the commands the sample loop writes
SampleBlocks(a, name, E, first) ==
    Flatten([k \in 1..Len(a.positions) |-> SampleBlock(a, name, E, first, k - 1)])

\* what the sample loop writes to ScanInfo
SampleInfo(a, name, E, first) ==
    Flatten([k \in 1..Len(a.positions) |->
        LET pos_idx == PosIdx(first, k - 1, Len(a.positions))
        IN  [rep \in 1..a.repetitions |-> InfoFile(SamFiles(a, name, E, pos_idx)[rep])]])

\* seeded fault: the flag never changes; the flag toggles in every mode
NextRefFirst_Stuck(first, abba_mode) == TRUE
NextRefFirst_Toggle(first, abba_mode) == ~first

\* the toggle of the ABBA flag at the end of an energy step
NextRefFirst(first, abba_mode) == ~(first /\ abba_mode)

\* everything one pass of the energy loop writes to dest
EnergyLines(a, name, E, first) ==
    LET zp_pos == Position(a.zoneplate, E)
        ref_s  == RefBlock(a, name, E, first)
    IN  << Cmt("set the MONO and the ZP"), Sete(E),
           Moveto("zpx", zp_pos.x), Moveto("zpy", zp_pos.y), Moveto("zpz", zp_pos.z) >>
        \o (IF first THEN ref_s ELSE <<>>)
        \o SampleBlocks(a, name, E, first)
        \o (IF ~first THEN ref_s ELSE <<>>)

\* seeded fault: the reference file names are not written to ScanInfo
EnergyInfo_SamplesOnly(a, name, E, first) == SampleInfo(a, name, E, first)

\* everything one pass of the energy loop writes to ScanInfo: the reference
\* file names go out while ref_s is built, the sample file names in their loop
EnergyInfo(a, name, E, first) ==
    [rep \in 1..a.ref_repetitions |-> InfoFile(RefFiles(a, name, E)[rep])]
    \o SampleInfo(a, name, E, first)

\* seeded fault: the park block is its comment only
ParkLines_CommentOnly(a) == <<Cmt("Park at reference position")>>

\* the commands that park the stage at the end of an iteration
ParkLines(a) ==
    <<Cmt("Park at reference position")>> \o PosTemplate(a.reference_position)

\* the condition of the wait that follows the iteration loop
RestAfterLoop(a, name) ==
    a.iteration_rest # 0 /\ name # a.iterations[Len(a.iterations)]

(***************************************************************************)
(* The arguments the call is checked with.                                 *)
(***************************************************************************)
\* edge.all_energies(): ascending, or neither sorted nor free of repeats
EnergyLists ==
    {[i \in 1..n |-> DyInt(8950 + 30 * (i - 1))] : n \in 1..MaxEnergies}
    \cup {[i \in 1..n |-> DyInt(IF i % 2 = 1 THEN 8980 ELSE 8950)] : n \in 1..MaxEnergies}

IterNames == <<"sample1", "sample2", "sample3", "sample4">>
\* identifiers all different, or all the same
IterationLists ==
    {SubSeq(IterNames, 1, n) : n \in 1..MaxIterations}
    \cup {[i \in 1..n |-> IterNames[1]] : n \in 1..MaxIterations}

SamplePoints ==
    << position(DyInt(0), DyInt(0), DyInt(0)), position(DyInt(1), DyInt(1), DyInt(0)),
       position(DyInt(2), DyInt(0), DyInt(1)), position(DyInt(3), DyInt(1), DyInt(1)) >>
PositionLists == {SubSeq(SamplePoints, 1, n) : n \in 0..MaxPositions}

ReferencePoint == position(DyInt(5), DyInt(5), DyInt(0))

\* a two-point calibrated zoneplate
ScriptZoneplate ==
    ZoneplateInit(ZoneplatePoint(0, 0, 3110, 8250), None,
                  Some(ZoneplatePoint(3, -2, 3500, 8640))).self[1]

ArgSets ==
    [ edge_energies      : EnergyLists,
      zoneplate          : {ScriptZoneplate},
      positions          : PositionLists,
      reference_position : {ReferencePoint},
      iterations         : IterationLists,
      iteration_rest     : {0, 5},
      frame_rest         : {0, 3},
      binning            : {2},
      exposure           : {DyPow2(-1)},
      repetitions        : {1, MaxReps},
      ref_repetitions    : {1, MaxReps},
      abba_mode          : BOOLEAN ]

\* the Zoneplate of the Spec runs: built once, never called
ZpIdle ==
    /\ zp_args = [start |-> ZoneplatePoint(0, 0, 3110, 8250), z_step |-> None,
                  end |-> Some(ZoneplatePoint(3, -2, 3500, 8640))]
    /\ zp_pc = "built"
    /\ zp = [raised |-> "", self |-> Some(ScriptZoneplate)]
    /\ zp_calls = <<>>
    /\ zp_zcalls = <<>>

Init ==
    /\ args \in ArgSets
    /\ pc = "start"
    /\ dest = <<>>
    /\ scaninfo = <<>>
    /\ scaninfo_file = "none"
    /\ it = 0
    /\ en = 0
    /\ fs_name = ""
    /\ ref_first = TRUE
    /\ raised = ""
    /\ reverse_positions = FALSE
    /\ prior = <<>>
    /\ ZpIdle
    /\ PlotIdle

(***************************************************************************)
(* The steps of ssrl6_xanes_script.                                        *)
(***************************************************************************)
\* seeded fault: the file is opened for appending
OpenForWriting_Append(content) == content

\* open(scaninfo, mode='w'): what the file holds once opened, given what a file
\* of that name held before
OpenForWriting(content) == <<>>

\* the sanity check, then the ScanInfo file is opened and its header written
Start ==
    /\ pc = "start"
    /\ IF SanityCheckFails(args.frame_rest, args.abba_mode)
       THEN /\ raised' = "ValueError"
            /\ pc' = "raised"
            /\ UNCHANGED <<scaninfo, scaninfo_file, it>>
       ELSE /\ scaninfo_file' = "open"
            /\ scaninfo' = OpenForWriting(scaninfo)
                           \o ScaninfoHeader(args.abba_mode, args.repetitions,
                                             args.ref_repetitions)
            /\ it' = 1
            /\ pc' = IF Len(args.iterations) >= 1 THEN "iter" ELSE "finish"
            /\ UNCHANGED raised
    /\ UNCHANGED <<args, dest, en, fs_name, ref_first>>
    /\ UNCHANGED <<reverse_positions, prior>>
    /\ UNCHANGED zp_vars
    /\ UNCHANGED plot_vars

\* seeded fault: the ScanInfo header is written by every iteration
IterBegin_WritesHeader ==
    /\ pc = "iter"
    /\ fs_name' = args.iterations[it]
    /\ ref_first' = TRUE
    /\ dest' = Append(dest, Cmt("2D XANES"))
    /\ scaninfo' = IF it = 1 THEN scaninfo
                   ELSE scaninfo \o ScaninfoHeader(args.abba_mode, args.repetitions,
                                                   args.ref_repetitions)
    /\ en' = 1
    /\ pc' = IF Len(args.edge_energies) >= 1 THEN "energy" ELSE "park"
    /\ UNCHANGED <<args, scaninfo_file, it, raised>>
    /\ UNCHANGED <<reverse_positions, prior>>
    /\ UNCHANGED zp_vars
    /\ UNCHANGED plot_vars

\* for fs_name in iterations: the flag is reset and the header line written
IterBegin ==
    /\ pc = "iter"
    /\ fs_name' = args.iterations[it]
    /\ ref_first' = TRUE
    /\ dest' = Append(dest, Cmt("2D XANES"))
    /\ en' = 1
    /\ pc' = IF Len(args.edge_energies) >= 1 THEN "energy" ELSE "park"
    /\ UNCHANGED <<args, scaninfo, scaninfo_file, it, raised>>
    /\ UNCHANGED <<reverse_positions, prior>>
    /\ UNCHANGED zp_vars
    /\ UNCHANGED plot_vars

\* for E in edge.all_energies(): one pass of the body
EnergyStep ==
    /\ pc = "energy"
    /\ LET E == args.edge_energies[en]
       IN  /\ dest' = dest \o EnergyLines(args, fs_name, E, ref_first)
           /\ scaninfo' = scaninfo \o EnergyInfo(args, fs_name, E, ref_first)
    /\ ref_first' = NextRefFirst(ref_first, args.abba_mode)
    /\ en' = en + 1
    /\ pc' = IF en < Len(args.edge_energies) THEN "energy" ELSE "park"
    /\ UNCHANGED <<args, scaninfo_file, it, fs_name, raised>>
    /\ UNCHANGED <<reverse_positions, prior>>
    /\ UNCHANGED zp_vars
    /\ UNCHANGED plot_vars

\* after the energies of one iteration: park at the reference position
Park ==
    /\ pc = "park"
    /\ dest' = dest \o ParkLines(args)
    /\ it' = it + 1
    /\ pc' = IF it < Len(args.iterations) THEN "iter" ELSE "finish"
    /\ UNCHANGED <<args, scaninfo, scaninfo_file, en, fs_name, ref_first, raised>>
    /\ UNCHANGED <<reverse_positions, prior>>
    /\ UNCHANGED zp_vars
    /\ UNCHANGED plot_vars

\* after the iteration loop: the wait between iterations, and the close
Finish ==
    /\ pc = "finish"
    /\ dest' = IF RestAfterLoop(args, fs_name)
               THEN Append(dest, Wait(args.iteration_rest))
               ELSE dest
    /\ scaninfo_file' = "closed"
    /\ pc' = "done"
    /\ UNCHANGED <<args, scaninfo, it, en, fs_name, ref_first, raised>>
    /\ UNCHANGED <<reverse_positions, prior>>
    /\ UNCHANGED zp_vars
    /\ UNCHANGED plot_vars

Next == Start \/ IterBegin \/ EnergyStep \/ Park \/ Finish

Spec == Init /\ [][Next]_vars

(***************************************************************************)
(* Reading the two files back.                                             *)
(***************************************************************************)
IsCollect(l) == l.op = "collect"
IsCmt(l, text) == l.op = "comment" /\ l.text = text
IsWait(l, n) == l.op = "wait" /\ l.n = n

\* the file names of the collect lines of the script, in order
CollectFiles(d) ==
    LET c == SelectSeq(d, IsCollect) IN [i \in 1..Len(c) |-> c[i].file]

\* the file names that follow the FILES line of ScanInfo, in order
ScanInfoFiles(s) ==
    LET marks == {i \in 1..Len(s) : s[i].key = "FILES"}
    IN  IF marks = {} THEN <<>>
        ELSE LET k == SetMin(marks)
             IN  [j \in 1..(Len(s) - k) |-> s[k + j].file]

\* the lines that open a part of the script: an iteration, an energy step, the
\* park block, the wait between iterations
Opens(d, i) ==
    \/ IsCmt(d[i], "2D XANES")
    \/ IsCmt(d[i], "set the MONO and the ZP")
    \/ IsCmt(d[i], "Park at reference position")
    \/ (d[i].op = "wait" /\ i > 4 /\ IsCmt(d[i - 4], "Park at reference position"))

IterationStarts(d) == {i \in 1..Len(d) : IsCmt(d[i], "2D XANES")}
StepStarts(d) == {i \in 1..Len(d) : IsCmt(d[i], "set the MONO and the ZP")}
ParkStarts(d) == {i \in 1..Len(d) : IsCmt(d[i], "Park at reference position")}

\* the last line of the part that starts at line i
PartEnd(d, i) ==
    LET later == {j \in (i + 1)..Len(d) : Opens(d, j)}
    IN  IF later = {} THEN Len(d) ELSE SetMin(later) - 1

\* the energy step that starts at line i is the n-th (from 1) of its iteration
StepOrdinal(d, i) ==
    LET h == SetMax({j \in IterationStarts(d) : j < i})
    IN  Cardinality({j \in StepStarts(d) : h < j /\ j <= i})

\* the collect lines of the reference / sample frames in lines i..j
RefCollects(d, i, j) == {k \in i..j : IsCollect(d[k]) /\ d[k].file.kind = "ref"}
SamCollects(d, i, j) == {k \in i..j : IsCollect(d[k]) /\ d[k].file.kind = "sam"}

\* in the step that starts at line i the reference block comes first / last
RefBeforeSamples(d, i) ==
    LET j == PartEnd(d, i)
    IN  /\ RefCollects(d, i, j) # {}
        /\ \A r \in RefCollects(d, i, j) : \A s \in SamCollects(d, i, j) : r < s
RefAfterSamples(d, i) ==
    LET j == PartEnd(d, i)
    IN  /\ RefCollects(d, i, j) # {}
        /\ \A r \in RefCollects(d, i, j) : \A s \in SamCollects(d, i, j) : s < r

\* the stage moves (x, y, z as written) that open the sample blocks of the step
\* that starts at line i, in order
SampleMoves(d, i) ==
    LET j  == PartEnd(d, i)
        at == {k \in i..j : IsCmt(d[k], "Move to sample position")}
        RECURSIVE Upto(_)
        Upto(S) == IF S = {} THEN <<>>
                   ELSE LET k == SetMax(S)
                        IN  Append(Upto(S \ {k}), <<d[k + 1], d[k + 2], d[k + 3]>>)
    IN  Upto(at)

Done == pc = "done"

(***************************************************************************)
(* C1: after a complete run the file names listed after FILES in ScanInfo  *)
(* are, element by element and in the same order, the file names of the    *)
(* collect lines of the script.                                            *)
(***************************************************************************)
C1_ScanInfoOrderIsCollectOrder ==
    Done => ScanInfoFiles(scaninfo) = CollectFiles(dest)

(***************************************************************************)
(* C2: with abba_mode and two or more energies, in every iteration the     *)
(* reference block comes before the sample blocks on the 1st, 3rd, ...     *)
(* energy step and after them on the 2nd, 4th, ...; the first step of      *)
(* every iteration has the reference first.                                *)
(***************************************************************************)
C2_AbbaAlternates ==
    (Done /\ args.abba_mode /\ Len(args.edge_energies) >= 2) =>
        \A i \in StepStarts(dest) :
            IF StepOrdinal(dest, i) % 2 = 1
            THEN RefBeforeSamples(dest, i)
            ELSE RefAfterSamples(dest, i)

\* a finished ABBA run of two iterations of three energies over sample positions
C2_Witness ==
    /\ Done /\ args.abba_mode
    /\ Len(args.edge_energies) = 3 /\ Len(args.iterations) = 2
    /\ Len(args.positions) >= 1
    /\ Cardinality(StepStarts(dest)) = 6

(***************************************************************************)
(* C3: without abba_mode, on every energy step of every iteration the      *)
(* reference block comes before all sample blocks and the sample positions *)
(* are visited in their original order.                                    *)
(***************************************************************************)
C3_NoAbbaReferenceFirst ==
    (Done /\ ~args.abba_mode) =>
        \A i \in StepStarts(dest) :
            /\ RefBeforeSamples(dest, i)
            /\ SampleMoves(dest, i)
                 = [k \in 1..Len(args.positions) |-> PosTemplate(args.positions[k])]

C3_Witness ==
    /\ Done /\ ~args.abba_mode
    /\ Len(args.edge_energies) >= 2 /\ Len(args.positions) >= 2
    /\ Cardinality(StepStarts(dest)) >= 2

(***************************************************************************)
(* C4: every sample block pairs the position it moves to with that         *)
(* position's own index: after the moves to positions[k] the comments and  *)
(* the fov of every collect file name of the block say k, also on the      *)
(* steps that traverse the positions in reverse.                           *)
(***************************************************************************)
C4_FovIsPositionIndex ==
    \A i \in 1..Len(dest) :
        IsCmt(dest[i], "Move to sample position") =>
            LET k == dest[i].n
            IN  /\ k \in 0..(Len(args.positions) - 1)
                /\ <<dest[i + 1], dest[i + 2], dest[i + 3]>>
                     = PosTemplate(args.positions[k + 1])
                /\ dest[i + 4] = CmtN("Collect frames sample position", k)
                /\ \A j \in (i + 7)..(i + 6 + args.repetitions) :
                       /\ IsCollect(dest[j])
                       /\ dest[j].file.kind = "sam"
                       /\ dest[j].file.fov = k

\* a step that visited the positions in reverse has been written
C4_Witness ==
    /\ Len(args.positions) >= 2
    /\ \E i \in StepStarts(dest) :
           /\ StepOrdinal(dest, i) = 2
           /\ SampleMoves(dest, i)
                = Reverse([k \in 1..Len(args.positions) |-> PosTemplate(args.positions[k])])

(***************************************************************************)
(* C5: with frame_rest and abba_mode both truthy the call fails with       *)
(* ValueError whatever the other arguments, and nothing has been written   *)
(* to the script and the ScanInfo file has not been opened or written.     *)
(***************************************************************************)
C5_RestWithAbbaRejected ==
    (args.frame_rest # 0 /\ args.abba_mode) =>
        /\ pc \in {"start", "raised"}
        /\ pc = "raised" => raised = "ValueError"
        /\ Len(dest) = 0
        /\ Len(scaninfo) = 0
        /\ scaninfo_file = "none"

C5_Witness ==
    /\ args.frame_rest # 0 /\ args.abba_mode
    /\ pc = "raised" /\ raised = "ValueError"

(***************************************************************************)
(* C6: with iteration_rest > 0 and n >= 2 iterations the script has a      *)
(* `wait iteration_rest` right after the park commands of each of the      *)
(* first n-1 iterations and before the next iteration starts (n-1 waits),  *)
(* and none after the last iteration.                                      *)
(***************************************************************************)
IterationWaits(d, rest) == {i \in 1..Len(d) : IsWait(d[i], rest)}

\* C6: with iteration_rest > 0 and n iterations the finished script holds
\* exactly n-1 lines `wait iteration_rest`
C6_WaitBetweenIterations ==
    (Done /\ args.iteration_rest > 0 /\ Len(args.iterations) >= 2) =>
        LET W == IterationWaits(dest, args.iteration_rest)
        IN  /\ Cardinality(W) = Len(args.iterations) - 1
            /\ \A w \in W :
                   /\ w > 4 /\ IsCmt(dest[w - 4], "Park at reference position")
                   /\ w < Len(dest) /\ IsCmt(dest[w + 1], "2D XANES")

(***************************************************************************)
(* C7: the end-to-end scenario.  energies [8950, 8980], positions          *)
(* (0,0,0), (1,1,0), reference (5,5,0), repetitions 2, ref_repetitions 1,  *)
(* abba_mode, one iteration "sample1": 8950 has the reference and then the *)
(* samples forward, 8980 the samples in reverse and then the reference, a  *)
(* park at the reference follows, 2 reference and 4 sample file names are  *)
(* collected, and ScanInfo lists them in emission order.                   *)
(***************************************************************************)
C7_Scenario ==
    /\ args.edge_energies = <<DyInt(8950), DyInt(8980)>>
    /\ args.positions = SubSeq(SamplePoints, 1, 2)
    /\ args.reference_position = ReferencePoint
    /\ args.repetitions = 2 /\ args.ref_repetitions = 1
    /\ args.abba_mode
    /\ args.iterations = <<"sample1">>

\* the script side of the scenario, with the number of sample files left open
C7_Script(nsam) ==
    LET files == CollectFiles(dest)
        steps == StepStarts(dest)
        s1    == SetMin(steps)
        s2    == SetMax(steps)
        p     == SetMin(ParkStarts(dest))
        fwd   == [k \in 1..2 |-> PosTemplate(args.positions[k])]
    IN  /\ Cardinality(steps) = 2
        /\ dest[s1 + 1] = Sete(DyInt(8950)) /\ dest[s2 + 1] = Sete(DyInt(8980))
        /\ RefBeforeSamples(dest, s1) /\ SampleMoves(dest, s1) = fwd
        /\ RefAfterSamples(dest, s2) /\ SampleMoves(dest, s2) = Reverse(fwd)
        /\ p > SetMax({i \in 1..Len(dest) : IsCollect(dest[i])})
        /\ <<dest[p + 1], dest[p + 2], dest[p + 3]>> = PosTemplate(ReferencePoint)
        /\ Cardinality({i \in 1..Len(files) : files[i].kind = "ref"}) = 2
        /\ Cardinality({i \in 1..Len(files) : files[i].kind = "sam"}) = nsam

\* C7: the two-energy, two-position ABBA run gives the script the claim
\* describes, with 4 sample file names, and ScanInfo lists the files in the
\* order of the collect lines
C7_EndToEnd ==
    (Done /\ C7_Scenario) =>
        /\ C7_Script(4)
        /\ ScanInfoFiles(scaninfo) = CollectFiles(dest)

(***************************************************************************)
(* The position model on its own: one Zoneplate is constructed and its     *)
(* position() is called at some energies.                                  *)
(***************************************************************************)
MaxCoord == 1

Half(n) == FDiv(DyInt(n), DyInt(2))

\* calibration points: x in 0..MaxCoord; y, z as on the instrument
StartPoints == {ZoneplatePoint(x, 0, 3110, 8250) : x \in 0..MaxCoord}
EndPoints ==
    {ZoneplatePoint(x, -3, 3500, e) : x \in 0..MaxCoord, e \in {8250, 8299, 8348}}
ZSteps == {DyInt(2), FDiv(DyInt(1), DyInt(10))}

ZpArgSets ==
    [ start  : StartPoints,
      z_step : {None} \cup {Some(s) : s \in ZSteps},
      end    : {None} \cup {Some(p) : p \in EndPoints} ]

\* energies position() is called with: inside and outside the calibrated range
ProbeEnergies ==
    {DyInt(8201), DyInt(8250), Half(16549), DyInt(8299), DyInt(8348)}

\* the script call of the PosSpec runs: never started
ScriptIdle ==
    /\ args = CHOOSE a \in ArgSets : TRUE
    /\ pc = "idle"
    /\ dest = <<>>
    /\ scaninfo = <<>>
    /\ scaninfo_file = "none"
    /\ it = 0
    /\ en = 0
    /\ fs_name = ""
    /\ ref_first = TRUE
    /\ raised = ""
    /\ reverse_positions = FALSE
    /\ prior = <<>>

PosInit ==
    /\ ScriptIdle
    /\ PlotIdle
    /\ zp_args \in ZpArgSets
    /\ zp_pc = "init"
    /\ zp = [raised |-> "", self |-> None]
    /\ zp_calls = <<>>
    /\ zp_zcalls = <<>>

\* Zoneplate(start, z_step, end)
ZpConstruct ==
    /\ zp_pc = "init"
    /\ zp' = ZoneplateInit(zp_args.start, zp_args.z_step, zp_args.end)
    /\ zp_pc' = IF zp'.raised = "" THEN "built" ELSE "raised"
    /\ UNCHANGED <<zp_args, zp_calls, zp_zcalls>>
    /\ UNCHANGED script_vars
    /\ UNCHANGED plot_vars

\* zoneplate.position(energy); zp_calls keeps energy :> result
ZpPosition ==
    /\ zp_pc = "built"
    /\ \E energy \in ProbeEnergies \ DOMAIN zp_calls :
           zp_calls' = [e \in DOMAIN zp_calls \cup {energy} |->
                           IF e = energy THEN Position(zp.self[1], energy)
                           ELSE zp_calls[e]]
    /\ UNCHANGED <<zp_args, zp_pc, zp, zp_zcalls>>
    /\ UNCHANGED script_vars
    /\ UNCHANGED plot_vars

PosNext == ZpConstruct \/ ZpPosition

PosSpec == PosInit /\ [][PosNext]_vars

(***************************************************************************)
(* C8: constructing a Zoneplate with both a step and a second calibration  *)
(* point, or with neither, always fails with a configuration error and     *)
(* gives no model; supplying exactly one of them succeeds.                 *)
(***************************************************************************)
BothOrNeither == (zp_args.z_step = None) = (zp_args.end = None)
SameEnergy ==
    zp_args.end # None /\ zp_args.end[1].energy = zp_args.start.energy
Built == zp_pc = "built" /\ zp.raised = "" /\ zp.self # None
Refused(exc) == zp_pc = "raised" /\ zp.raised = exc /\ zp.self = None

\* C8: both or neither is refused with ValueError, exactly one succeeds
C8_ExactlyOneCalibration ==
    zp_pc # "init" =>
        IF BothOrNeither THEN Refused("ValueError") ELSE Built

\* C8 as amended: both or neither is refused with ValueError; exactly one
\* succeeds, except that a second point at the energy of the first is refused
\* with ZeroDivisionError
C8_ExactlyOneCalibrationUnlessSameEnergy ==
    zp_pc # "init" =>
        IF BothOrNeither THEN Refused("ValueError")
        ELSE IF SameEnergy THEN Refused("ZeroDivisionError")
        ELSE Built

\* both arguments were given and the constructor refused them
C8_Witness ==
    /\ zp_args.z_step # None /\ zp_args.end # None
    /\ Refused("ValueError")

(***************************************************************************)
(* C9: for a model built from two calibration points, position at the      *)
(* energy of start is exactly start and position at the energy of end is   *)
(* exactly end.                                                            *)
(***************************************************************************)
TwoPoint == Built /\ zp_args.z_step = None
PointOf(p) == position(p.x, p.y, p.z)
Axes == {"x", "y", "z"}

\* C9: a two-point model returns exactly start at start.energy and exactly
\* end at end.energy
C9_CalibrationPointsExact ==
    TwoPoint =>
        \A e \in DOMAIN zp_calls :
            /\ e = zp_args.start.energy => zp_calls[e] = PointOf(zp_args.start)
            /\ e = zp_args.end[1].energy => zp_calls[e] = PointOf(zp_args.end[1])

\* C9 as amended: exact at start; at end within rounding, per axis
\*   |position(end.energy) - end| <= 2^-51 * (|end - start| + |end|)
C9_StartExactEndWithinRounding ==
    TwoPoint =>
        \A e \in DOMAIN zp_calls :
            /\ e = zp_args.start.energy => zp_calls[e] = PointOf(zp_args.start)
            /\ e = zp_args.end[1].energy =>
                 \A ax \in Axes :
                    LET s == zp_args.start[ax]
                        t == zp_args.end[1][ax]
                    IN  DyLeq(DyAbs(DySub(zp_calls[e][ax], t)),
                              DyMul(DyPow2(-51),
                                    DyAdd(DyAbs(DySub(t, s)), DyAbs(t))))

\* position() was called at both calibration energies of a two-point model,
\* and the result at the second is not the second point
C9_Witness ==
    /\ TwoPoint
    /\ zp_args.start.energy \in DOMAIN zp_calls
    /\ zp_args.end[1].energy \in DOMAIN zp_calls
    /\ zp_calls[zp_args.end[1].energy] # PointOf(zp_args.end[1])

(***************************************************************************)
(* C10: position is affine in the energy: for all energies e1, e2, on each *)
(* axis position(e1) + position(e2) - 2 * position((e1 + e2) / 2) is zero. *)
(***************************************************************************)
Midpoint(e1, e2) == FDiv(FAdd(e1, e2), DyInt(2))
\* the linearity residual as the program's arithmetic gives it
Residual(p1, p2, pm) == FSub(FAdd(p1, p2), FMul(pm, DyInt(2)))
DyMax(a, b) == IF DyLeq(a, b) THEN b ELSE a

\* the pairs of energies called so far whose midpoint was called too
MidpointTriples ==
    {<<e1, e2>> \in (DOMAIN zp_calls) \X (DOMAIN zp_calls) :
        Midpoint(e1, e2) \in DOMAIN zp_calls}

\* C10: position(e1) + position(e2) - 2 * position((e1 + e2) / 2) is zero
\* on every axis
C10_AffineExactly ==
    Built =>
        \A t \in MidpointTriples : \A ax \in Axes :
            Residual(zp_calls[t[1]][ax], zp_calls[t[2]][ax],
                     zp_calls[Midpoint(t[1], t[2])][ax]) = DyZero

\* C10 as amended: zero within rounding, per axis, the residual being computed
\* in the program's arithmetic and E0 being start.energy:
\*   |residual| <= 2^-47 * (|start| + |step| * max(|e1|, |e2|, |E0|))
C10_AffineWithinRounding ==
    Built =>
        \A t \in MidpointTriples : \A ax \in Axes :
            LET self == zp.self[1]
                M    == DyMax(DyAbs(self.start.energy),
                              DyMax(DyAbs(t[1]), DyAbs(t[2])))
                r    == Residual(zp_calls[t[1]][ax], zp_calls[t[2]][ax],
                                 zp_calls[Midpoint(t[1], t[2])][ax])
            IN  DyLeq(DyAbs(r),
                      DyMul(DyPow2(-47),
                            DyAdd(DyAbs(self.start[ax]),
                                  DyMul(DyAbs(self.step[ax]), M))))

\* two different energies and their midpoint were called, with a residual
\* that is not zero
C10_Witness ==
    /\ Built
    /\ \E t \in MidpointTriples :
          /\ t[1] # t[2]
          /\ Residual(zp_calls[t[1]].x, zp_calls[t[2]].x,
                      zp_calls[Midpoint(t[1], t[2])].x) # DyZero

(***************************************************************************)
(* z_position on its own: a Zoneplate or a Detector (the subclass adds     *)
(* nothing) is constructed and its z_position() is called at some energies.*)
(***************************************************************************)
\* seeded fault: the z of position() is returned
ZPosition_FromPosition(self, energy) ==
    [raised |-> "", value |-> Some(Position(self, energy).z)]

\* Zoneplate.z_position: the exception raised and the value returned
ZPosition(self, energy) == [raised |-> "NotImplementedError", value |-> None]

Classes == {"Zoneplate", "Detector"}

ZArgSets ==
    [ cls    : Classes,
      start  : StartPoints,
      z_step : {None} \cup {Some(s) : s \in ZSteps},
      end    : {None} \cup {Some(p) : p \in EndPoints} ]

ZInit ==
    /\ ScriptIdle
    /\ PlotIdle
    /\ zp_args \in ZArgSets
    /\ zp_pc = "init"
    /\ zp = [raised |-> "", self |-> None]
    /\ zp_calls = <<>>
    /\ zp_zcalls = <<>>

\* zoneplate.z_position(energy); zp_zcalls keeps energy :> outcome
ZpZPosition ==
    /\ zp_pc = "built"
    /\ \E energy \in ProbeEnergies \ DOMAIN zp_zcalls :
           zp_zcalls' = [e \in DOMAIN zp_zcalls \cup {energy} |->
                            IF e = energy THEN ZPosition(zp.self[1], energy)
                            ELSE zp_zcalls[e]]
    /\ UNCHANGED <<zp_args, zp_pc, zp, zp_calls>>
    /\ UNCHANGED script_vars
    /\ UNCHANGED plot_vars

ZNext == ZpConstruct \/ ZpZPosition

ZSpec == ZInit /\ [][ZNext]_vars

\* C11: every call of z_position, on a step-calibrated or a two-point model,
\* Zoneplate or Detector, at any energy, raises NotImplementedError and
\* returns no value
C11_ZPositionUnsupported ==
    \A e \in DOMAIN zp_zcalls :
        /\ zp_zcalls[e].raised = "NotImplementedError"
        /\ zp_zcalls[e].value = None

\* z_position was called on a two-point Detector and on no other energy yet
C11_Witness ==
    /\ zp_args.cls = "Detector" /\ zp_args.z_step = None /\ Built
    /\ DOMAIN zp_zcalls = {DyInt(8299)}

(***************************************************************************)
(* sector8_xanes_script: one call, as a state machine over the same        *)
(* variables (the ScanInfo variables stay untouched: the function has no   *)
(* such file).  The zoneplate and the detector are position models whose   *)
(* start point has all of x, y, z and energy.                              *)
(***************************************************************************)
\* the integer part of a >= 0, and the ceiling of any a
FloorInt(a) ==
    IF a.e >= 0 THEN NatToInt(NatShl(a.m, a.e)) ELSE NatToInt(NatShr(a.m, -a.e))
CeilInt(a) ==
    IF a.m = <<>> THEN 0
    ELSE IF a.neg THEN -FloorInt(DyAbs(a))
    ELSE IF a.e >= 0 THEN FloorInt(a) ELSE FloorInt(a) + 1

\* numpy.arange(start, stop, step) on floats: ceil((stop - start) / step)
\* elements; the first is start, the second start + step, and the i-th (from
\* 0) start + i * delta with delta the difference of the first two
Arange(start, stop, step) ==
    LET n     == CeilInt(FDiv(FSub(stop, start), step))
        next  == FAdd(start, step)
        delta == FSub(next, start)
    IN  [i \in 1..(IF n > 0 THEN n ELSE 0) |->
            IF i = 1 THEN start
            ELSE IF i = 2 THEN next
            ELSE FAdd(start, FMul(DyInt(i - 1), delta))]

\* how far below the first energy the approach starts, and its step, in eV
RampSpan == 100
RampStep == 2

\* seeded fault: the approach runs up to and including the first energy
ApproachEnergies_Inclusive(starting_energy) ==
    Arange(FSub(starting_energy, DyInt(RampSpan)),
           FAdd(starting_energy, DyInt(RampStep)), DyInt(RampStep))

\* the energies of the approach from below
ApproachEnergies(starting_energy) ==
    Arange(FSub(starting_energy, DyInt(RampSpan)), starting_energy, DyInt(RampStep))

\* the decimal digits of f, 0 <= f < 1, after the point (none for 0)
RECURSIVE FracDigits(_)
FracDigits(f) ==
    IF f.m = <<>> THEN <<>>
    ELSE LET t == DyMul(f, DyInt(10))
             d == FloorInt(t)
         IN  <<d>> \o FracDigits(DySub(t, DyInt(d)))

\* "{}_{}".format(*str(float(energy)).split('.')): the digits before and after
\* the point of the shortest text that reads back as the float, which for a
\* float of at most 15 significant decimal digits is its exact decimal
\* expansion ('8950.0' gives 8950 and <<0>>)
EnergyStr(energy) ==
    LET whole == FloorInt(DyAbs(energy))
        f     == DySub(DyAbs(energy), DyInt(whole))
    IN  [neg |-> energy.neg, whole |-> whole,
         frac |-> IF f.m = <<>> THEN <<0>> ELSE FracDigits(f)]

\* "{name}_xanes{iter}_{energy}eV.xrm", field by field
S8Filename(name, iteration, energy) ==
    [kind |-> "xanes", name |-> name, iter |-> iteration,
     energy |-> EnergyStr(energy)]

\* seeded fault: the traversal is reversed whatever abba_mode says
PositionIndexes_IgnoresMode(n, reverse, abba_mode) ==
    IF reverse THEN [i \in 1..n |-> n - i] ELSE [i \in 1..n |-> i - 1]

\* seeded fault: the reverse traversal stops before index 0
PositionIndexes_StopsEarly(n, reverse, abba_mode) ==
    IF reverse /\ abba_mode THEN [i \in 1..(n - 1) |-> n - i]
    ELSE [i \in 1..n |-> i - 1]

\* position_indexes (from 0), for n sample positions
PositionIndexes(n, reverse, abba_mode) ==
    IF reverse /\ abba_mode THEN [i \in 1..n |-> n - i] ELSE [i \in 1..n |-> i - 1]

\* what the call writes before the loops
S8Header(a) ==
    <<[op |-> "setbinning", n |-> a.binning], [op |-> "setexp", n |-> a.exposure]>>

\* the approach of one iteration
S8RampLines(a) ==
    LET ramp == ApproachEnergies(a.edge_energies[1])
    IN  [i \in 1..Len(ramp) |-> Moveto("energy", ramp[i])]

\* seeded fault: the detector stays where the first energy put it
S8OpticLines_StaleDetector(a, energy) ==
    << Moveto("energy", energy),
       Moveto("zpz", Position(a.zoneplate, energy).z),
       Moveto("detz", Position(a.detector, a.edge_energies[1]).z) >>

\* the energy command and the optics of one pass of the energy loop
S8OpticLines(a, energy) ==
    << Moveto("energy", energy),
       Moveto("zpz", Position(a.zoneplate, energy).z),
       Moveto("detz", Position(a.detector, energy).z) >>

\* the moves and the collect of one sample position (idx from 0)
S8SampleLines(a, iteration, energy, idx) ==
    LET pos  == a.sample_positions[idx + 1]
        name == a.names[idx + 1]
    IN  << Moveto("x", pos.x), Moveto("y", pos.y), Moveto("z", pos.z),
           Collect(S8Filename(name, iteration, energy)) >>

\* everything one pass of the energy loop writes
S8EnergyLines(a, iteration, energy, reverse) ==
    LET ix == PositionIndexes(Len(a.sample_positions), reverse, a.abba_mode)
    IN  S8OpticLines(a, energy)
        \o Flatten([k \in 1..Len(ix) |-> S8SampleLines(a, iteration, energy, ix[k])])

\* ---- the arguments the call is checked with
\* as for ssrl6_xanes_script, and a list that starts at a fractional energy
S8EnergyLists ==
    EnergyLists \cup {<<>>, <<Half(17899), DyInt(8980)>>}
\* range(0, n)
S8IterationLists == {[i \in 1..n |-> i - 1] : n \in 1..MaxIterations}
SampleNames == <<"ni", "co", "mn", "fe">>
\* a step-calibrated detector
ScriptDetector ==
    ZoneplateInit(ZoneplatePoint(0, 0, 389, 8313), Some(FDiv(DyInt(3), DyInt(8))),
                  None).self[1]

S8ArgSets ==
    { [ edge_energies    |-> e,
        zoneplate        |-> ScriptZoneplate,
        detector         |-> ScriptDetector,
        sample_positions |-> SubSeq(SamplePoints, 1, n),
        names            |-> SubSeq(SampleNames, 1, n),
        iterations       |-> i,
        binning          |-> 1,
        exposure         |-> 30,
        abba_mode        |-> b ] :
      e \in S8EnergyLists, n \in 0..MaxPositions, i \in S8IterationLists,
      b \in BOOLEAN }

S8Init ==
    /\ args \in S8ArgSets
    /\ pc = "s8_start"
    /\ dest = <<>>
    /\ scaninfo = <<>>
    /\ scaninfo_file = "none"
    /\ it = 0
    /\ en = 0
    /\ fs_name = ""
    /\ ref_first = TRUE
    /\ raised = ""
    /\ reverse_positions = FALSE
    /\ prior = <<>>
    /\ ZpIdle
    /\ PlotIdle

\* binning and exposure are written, then energies[0] is read
S8Start ==
    /\ pc = "s8_start"
    /\ dest' = dest \o S8Header(args)
    /\ IF Len(args.edge_energies) = 0
       THEN /\ raised' = "IndexError"
            /\ pc' = "raised"
            /\ UNCHANGED it
       ELSE /\ it' = 1
            /\ pc' = IF Len(args.iterations) >= 1 THEN "s8_iter" ELSE "s8_done"
            /\ UNCHANGED raised
    /\ UNCHANGED <<args, scaninfo, scaninfo_file, en, fs_name, ref_first,
                   reverse_positions, prior>>
    /\ UNCHANGED zp_vars
    /\ UNCHANGED plot_vars

\* for iteration in iterations: the flag is reset, the approach is written
S8IterBegin ==
    /\ pc = "s8_iter"
    /\ reverse_positions' = FALSE
    /\ dest' = dest \o S8RampLines(args)
    /\ en' = 1
    /\ pc' = "s8_energy"
    /\ UNCHANGED <<args, scaninfo, scaninfo_file, it, fs_name, ref_first, raised,
                   prior>>
    /\ UNCHANGED zp_vars
    /\ UNCHANGED plot_vars

\* seeded fault: an energy the edge lists again is passed over
S8EnergyStep_Deduplicates ==
    /\ pc = "s8_energy"
    /\ dest' = IF \E j \in 1..(en - 1) : args.edge_energies[j] = args.edge_energies[en]
               THEN dest
               ELSE dest \o S8EnergyLines(args, args.iterations[it],
                                          args.edge_energies[en], reverse_positions)
    /\ reverse_positions' = ~reverse_positions
    /\ IF en < Len(args.edge_energies)
       THEN /\ en' = en + 1
            /\ UNCHANGED <<it, pc>>
       ELSE /\ en' = en + 1
            /\ it' = it + 1
            /\ pc' = IF it < Len(args.iterations) THEN "s8_iter" ELSE "s8_done"
    /\ UNCHANGED <<args, scaninfo, scaninfo_file, fs_name, ref_first, raised,
                   prior>>
    /\ UNCHANGED zp_vars
    /\ UNCHANGED plot_vars

\* for energy in energies: one pass of the body
S8EnergyStep ==
    /\ pc = "s8_energy"
    /\ dest' = dest \o S8EnergyLines(args, args.iterations[it],
                                     args.edge_energies[en], reverse_positions)
    /\ reverse_positions' = ~reverse_positions
    /\ IF en < Len(args.edge_energies)
       THEN /\ en' = en + 1
            /\ UNCHANGED <<it, pc>>
       ELSE /\ en' = en + 1
            /\ it' = it + 1
            /\ pc' = IF it < Len(args.iterations) THEN "s8_iter" ELSE "s8_done"
    /\ UNCHANGED <<args, scaninfo, scaninfo_file, fs_name, ref_first, raised,
                   prior>>
    /\ UNCHANGED zp_vars
    /\ UNCHANGED plot_vars

S8Next == S8Start \/ S8IterBegin \/ S8EnergyStep

S8Spec == S8Init /\ [][S8Next]_vars

S8Done == pc = "s8_done"

(***************************************************************************)
(* Both sequencers, each called more than once with the same arguments.    *)
(* A later call writes to a new, empty script sink; the ScanInfo file it   *)
(* opens is either new or the one an earlier call left under that name.    *)
(***************************************************************************)
MaxCalls == 2

\* the ssrl6_xanes_script arguments of these runs
SeqArgSets ==
    {a \in ArgSets :
        a.iteration_rest = 5 /\ a.repetitions = 1 /\ a.ref_repetitions = 1}

IsSsrl6Call == "frame_rest" \in DOMAIN args
Returned == pc \in {"done", "s8_done", "raised"}

BothInit ==
    /\ \/ args \in SeqArgSets /\ pc = "start"
       \/ args \in S8ArgSets /\ pc = "s8_start"
    /\ dest = <<>>
    /\ scaninfo = <<>>
    /\ scaninfo_file = "none"
    /\ it = 0
    /\ en = 0
    /\ fs_name = ""
    /\ ref_first = TRUE
    /\ raised = ""
    /\ reverse_positions = FALSE
    /\ prior = <<>>
    /\ ZpIdle
    /\ PlotIdle

\* the same function is called again with the same arguments: what the call
\* that returned wrote is kept in prior, the locals are new
CallAgain ==
    /\ Returned
    /\ Len(prior) < MaxCalls - 1
    /\ prior' = Append(prior, [dest |-> dest, scaninfo |-> scaninfo,
                               raised |-> raised])
    /\ dest' = <<>>
    /\ scaninfo' \in {<<>>, scaninfo}
    /\ scaninfo_file' = "none"
    /\ pc' = IF IsSsrl6Call THEN "start" ELSE "s8_start"
    /\ it' = 0
    /\ en' = 0
    /\ fs_name' = ""
    /\ ref_first' = TRUE
    /\ raised' = ""
    /\ reverse_positions' = FALSE
    /\ UNCHANGED args
    /\ UNCHANGED zp_vars
    /\ UNCHANGED plot_vars

BothNext ==
    \/ Start \/ IterBegin \/ EnergyStep \/ Park \/ Finish
    \/ S8Start \/ S8IterBegin \/ S8EnergyStep
    \/ CallAgain

BothSpec == BothInit /\ [][BothNext]_vars

\* C12: a call that has returned left in the script, in ScanInfo and as its
\* exception exactly what every earlier call with the same arguments left
C12_SameInputsSameOutput ==
    Returned =>
        \A k \in 1..Len(prior) :
            /\ prior[k].dest = dest
            /\ prior[k].scaninfo = scaninfo
            /\ prior[k].raised = raised

\* a second ABBA run of ssrl6_xanes_script over two or more energies and two
\* or more positions has finished
C12_Witness ==
    /\ IsSsrl6Call /\ pc = "done" /\ Len(prior) >= 1
    /\ args.abba_mode /\ Len(args.edge_energies) >= 2 /\ Len(args.positions) >= 2
    /\ Len(scaninfo) > 20

(***************************************************************************)
(* The layout of the ScanInfo file (under Spec).                           *)
(***************************************************************************)
\* ScanInfo is n header lines, then the FILES line, then file names only
HeaderThenFiles(n) ==
    /\ Len(scaninfo) >= n + 1
    /\ \A i \in 1..n : scaninfo[i].key \notin {"FILES", "file"}
    /\ scaninfo[n + 1].key = "FILES"
    /\ \A i \in (n + 2)..Len(scaninfo) : scaninfo[i].key = "file"

\* C13: once the file is open it is a header of exactly 18 lines, the FILES
\* line, and file names, the header and FILES being there once
C13_Header18Lines == scaninfo_file # "none" => HeaderThenFiles(18)

\* C13 as amended: once the file is open it is a header of exactly 19 lines,
\* the FILES line, and file names, the header and FILES being there once
C13_Header19Lines == scaninfo_file # "none" => HeaderThenFiles(19)

\* a run of two or more iterations has finished and has listed file names
C13_Witness ==
    /\ Done /\ Len(args.iterations) >= 2
    /\ Len(scaninfo) > 20 /\ scaninfo[Len(scaninfo)].key = "file"

\* the values of the REFABBA lines of ScanInfo
RefAbbaValues ==
    {scaninfo[i].val : i \in {j \in 1..Len(scaninfo) : scaninfo[j].key = "REFABBA"}}

\* the reference placement the script shows: on some energy step the
\* reference block follows a sample block
ReferenceLastSomewhere ==
    \E i \in StepStarts(dest) :
        /\ SamCollects(dest, i, PartEnd(dest, i)) # {}
        /\ RefAfterSamples(dest, i)

\* C14: in a finished run REFABBA is 1 exactly when abba_mode is on and 0
\* otherwise, and it agrees with the script: with 0 the reference block never
\* follows a sample block, with 1 and two or more energies it is last on the
\* second step of every iteration
C14_RefAbbaIsMode ==
    Done =>
        /\ RefAbbaValues = {IF args.abba_mode THEN 1 ELSE 0}
        /\ RefAbbaValues = {0} => ~ReferenceLastSomewhere
        /\ (RefAbbaValues = {1} /\ Len(args.edge_energies) >= 2) =>
               \A i \in StepStarts(dest) :
                   StepOrdinal(dest, i) = 2 => RefAfterSamples(dest, i)

\* a finished run without abba_mode over two or more energies and positions
C14_Witness ==
    /\ Done /\ ~args.abba_mode /\ RefAbbaValues = {0}
    /\ Len(args.edge_energies) >= 2 /\ Len(args.positions) >= 1

\* the last line of the iteration that starts at line h
IterationEnd(d, h) ==
    LET later == {j \in IterationStarts(d) : j > h}
    IN  IF later = {} THEN Len(d) ELSE SetMin(later) - 1

\* the iteration that starts at line h ends with the park comment and the
\* moves of x, y, z to the reference position, after all its collects
EndsParked(d, h) ==
    LET e == IterationEnd(d, h)
    IN  /\ e - 3 > h
        /\ IsCmt(d[e - 3], "Park at reference position")
        /\ <<d[e - 2], d[e - 1], d[e]>> = PosTemplate(args.reference_position)
        /\ \A k \in h..e : IsCollect(d[k]) => k < e - 3

\* C15: in a finished run every iteration, not only the last, ends with the
\* moves of x, y and z to the reference position, after its last collect
C15_EveryIterationParks ==
    Done =>
        /\ Cardinality(IterationStarts(dest)) = Len(args.iterations)
        /\ \A h \in IterationStarts(dest) : EndsParked(dest, h)

\* a finished run of two or more iterations whose last energy step ends on a
\* sample position
C15_Witness ==
    /\ Done /\ Len(args.iterations) >= 2 /\ Len(args.positions) >= 1
    /\ \E i \in StepStarts(dest) :
          /\ StepOrdinal(dest, i) = Len(args.edge_energies)
          /\ SamCollects(dest, i, PartEnd(dest, i)) # {}
          /\ RefBeforeSamples(dest, i)

(***************************************************************************)
(* Reading the script of sector8_xanes_script back (under S8Spec).         *)
(***************************************************************************)
IsEnergyMove(l) == l.op = "moveto" /\ l.axis = "energy"

\* the last n lines of d
LastLines(d, n) == SubSeq(d, Len(d) - n + 1, Len(d))

\* the energy loop of an iteration is about to start
BeforeEnergyLoop == pc = "s8_energy" /\ en = 1

\* C16: when the energy loop of an iteration is about to start, the script
\* ends with exactly 50 `moveto energy` lines, at first-100, first-98, ...,
\* first-2, strictly increasing and all below the first energy, and what
\* precedes them is not a moveto energy of the approach
C16_ApproachFromBelow ==
    BeforeEnergyLoop =>
        LET first == args.edge_energies[1]
            ramp  == LastLines(dest, 50)
        IN  /\ Len(dest) >= 50
            /\ \A j \in 1..50 :
                   ramp[j] = Moveto("energy",
                                    DyAdd(DySub(first, DyInt(100)), DyInt(2 * (j - 1))))
            /\ \A j \in 1..49 : ramp[j].val.n < ramp[j + 1].val.n
            /\ \A j \in 1..50 : ramp[j].val.n < FmtFixed(first, 2).n
            /\ Len(dest) = 52 \/ ~IsEnergyMove(dest[Len(dest) - 50])

\* the approach of the second iteration has been written
C16_Witness ==
    /\ BeforeEnergyLoop /\ it = 2
    /\ Len(args.sample_positions) >= 1
    /\ IsEnergyMove(dest[Len(dest)])

IsStageMove(l) == l.op = "moveto" /\ l.axis \in {"x", "y", "z"}
CollectLines(d) == {k \in 1..Len(d) : IsCollect(d[k])}

\* how many times v occurs in the sequence q
Occurrences(q, v) == Cardinality({i \in 1..Len(q) : q[i] = v})

\* C17: a finished run holds |iterations| x |energies| x |positions| collects,
\* one for every iteration, energy (as often as the edge lists it) and
\* position; each is immediately preceded by the x, y, z moves to its
\* position; no other stage move exists (none to a reference); and no
\* ScanInfo file is opened or written
C17_OneCollectPerPosition ==
    /\ scaninfo = <<>> /\ scaninfo_file = "none"
    /\ S8Done =>
        LET n == Len(args.sample_positions)
            C == CollectLines(dest)
        IN  /\ Cardinality(C)
                 = Len(args.iterations) * Len(args.edge_energies) * n
            /\ \A i \in 1..Len(args.iterations) :
               \A e \in 1..Len(args.edge_energies) :
               \A p \in 1..n :
                   LET f == S8Filename(args.names[p], args.iterations[i],
                                       args.edge_energies[e])
                   IN  /\ Cardinality({k \in C : dest[k].file = f})
                            = Occurrences(args.edge_energies, args.edge_energies[e])
                       /\ \A k \in C :
                              dest[k].file = f =>
                                  /\ k > 3
                                  /\ <<dest[k - 3], dest[k - 2], dest[k - 1]>>
                                         = PosTemplate(args.sample_positions[p])
            /\ Cardinality({k \in 1..Len(dest) : IsStageMove(dest[k])})
                 = 3 * Cardinality(C)

\* a finished ABBA run of two iterations over two or more energies, one of
\* them repeated, and two or more positions
C17_Witness ==
    /\ S8Done /\ args.abba_mode
    /\ Len(args.iterations) >= 2 /\ Len(args.sample_positions) >= 2
    /\ \E e \in 1..Len(args.edge_energies) :
           Occurrences(args.edge_energies, args.edge_energies[e]) >= 2

(***************************************************************************)
(* ssrl6_xanes_script without sample positions (under Spec).               *)
(***************************************************************************)
\* C18: with an empty list of positions the call raises nothing but the
\* ValueError of the argument check, and a finished run has, on every energy
\* step of every iteration, the reference block with ref_repetitions collects
\* and its three stage moves, and no sample move or sample collect
C18_ReferenceOnlyScan ==
    Len(args.positions) = 0 =>
        /\ raised # "" => (raised = "ValueError" /\ args.frame_rest # 0 /\ args.abba_mode)
        /\ Done =>
            /\ Cardinality(StepStarts(dest))
                 = Len(args.iterations) * Len(args.edge_energies)
            /\ \A i \in StepStarts(dest) :
                   LET j == PartEnd(dest, i)
                   IN  /\ Cardinality(RefCollects(dest, i, j)) = args.ref_repetitions
                       /\ SamCollects(dest, i, j) = {}
                       /\ \A k \in i..j : ~IsCmt(dest[k], "Move to sample position")
                       /\ Cardinality({k \in i..j : IsStageMove(dest[k])}) = 3
                       /\ IsCmt(dest[i + 5], "Move to reference position")

\* a finished ABBA run without positions over two or more energies
C18_Witness ==
    /\ Done /\ Len(args.positions) = 0 /\ args.abba_mode
    /\ Len(args.edge_energies) >= 2 /\ args.ref_repetitions >= 2

(***************************************************************************)
(* The order of iterations and energies in both scripts (under BothSpec).  *)
(***************************************************************************)
IsSete(l) == l.op = "sete"

\* the energy commands of the energy loop of sector8_xanes_script: those that
\* the zoneplate move follows
S8EnergySets(d) ==
    LET at == {k \in 1..(Len(d) - 1) :
                  IsEnergyMove(d[k]) /\ d[k + 1].op = "moveto" /\ d[k + 1].axis = "zpz"}
        RECURSIVE Upto(_)
        Upto(S) == IF S = {} THEN <<>>
                   ELSE LET k == SetMax(S) IN Append(Upto(S \ {k}), d[k])
    IN  Upto(at)

\* the energy commands the edge asks for, for every iteration in turn
WantedEnergyCommands(Command(_)) ==
    Flatten([i \in 1..Len(args.iterations) |->
                [e \in 1..Len(args.edge_energies) |-> Command(args.edge_energies[e])]])

S8Move(E) == Moveto("energy", E)

\* C19: in a finished run of either script the energy commands are those of
\* the edge, in its order, each once per iteration, with no sorting and no
\* deduplication, and the iterations follow each other in the order given:
\* the collects of the n-th stretch of the script are those of iterations[n]
C19_SuppliedOrder ==
    /\ (IsSsrl6Call /\ pc = "done") =>
          /\ SelectSeq(dest, IsSete) = WantedEnergyCommands(Sete)
          /\ \A h \in IterationStarts(dest) :
                 LET n == Cardinality({j \in IterationStarts(dest) : j <= h})
                 IN  \A k \in h..IterationEnd(dest, h) :
                         IsCollect(dest[k]) => dest[k].file.name = args.iterations[n]
    /\ (~IsSsrl6Call /\ pc = "s8_done") =>
          /\ S8EnergySets(dest) = WantedEnergyCommands(S8Move)
          /\ LET c   == SelectSeq(dest, IsCollect)
                 per == Len(args.edge_energies) * Len(args.sample_positions)
             IN  \A k \in 1..Len(c) :
                     c[k].file.iter = args.iterations[((k - 1) \div per) + 1]

\* a finished sector8 run of two or more iterations over energies that are
\* neither ascending nor free of repeats
C19_Witness ==
    /\ ~IsSsrl6Call /\ pc = "s8_done"
    /\ Len(args.iterations) >= 2 /\ Len(args.sample_positions) >= 1
    /\ Len(args.edge_energies) >= 3
    /\ args.edge_energies[1] = args.edge_energies[3]
    /\ args.edge_energies[2] = DyInt(8950)

IsStepComment(l) == IsCmt(l, "set the MONO and the ZP")

\* the index of the last line before line k that satisfies Test
LastBefore(d, k, Test(_)) == SetMax({0} \cup {j \in 1..(k - 1) : Test(d[j])})

IsOpticMove(l) == l.op = "moveto" /\ l.axis \in {"zpx", "zpy", "zpz", "detz"}

\* the lines where sector8_xanes_script sets an energy of the edge
S8StepStarts(d) ==
    {k \in 1..(Len(d) - 1) :
        IsEnergyMove(d[k]) /\ d[k + 1].op = "moveto" /\ d[k + 1].axis = "zpz"}

\* the energy of the edge that the step starting at line k is for
S8StepEnergy(d, k) ==
    LET m == Cardinality({j \in S8StepStarts(d) : j <= k})
    IN  args.edge_energies[((m - 1) % Len(args.edge_energies)) + 1]

\* C20: in a finished run every energy step opens with the energy command
\* and then the optic moves for that same energy, in a fixed order (sete, zpx,
\* zpy, zpz; moveto energy, zpz, detz), and every collect follows the optic
\* moves of the energy set last before it, with no other optic move between
C20_OpticsFollowEnergy ==
    /\ (IsSsrl6Call /\ pc = "done") =>
          /\ \A i \in StepStarts(dest) :
                 LET E  == args.edge_energies[StepOrdinal(dest, i)]
                     zp_pos == Position(args.zoneplate, E)
                 IN  <<dest[i + 1], dest[i + 2], dest[i + 3], dest[i + 4]>>
                       = <<Sete(E), Moveto("zpx", zp_pos.x),
                           Moveto("zpy", zp_pos.y), Moveto("zpz", zp_pos.z)>>
          /\ \A k \in CollectLines(dest) :
                 LET s == LastBefore(dest, k, IsSete)
                 IN  /\ s > 0
                     /\ dest[s].val.n = dest[k].file.energy.n * 10
                     /\ LastBefore(dest, k, IsOpticMove) = s + 3
                     /\ LastBefore(dest, s, IsStepComment) = s - 1
    /\ (~IsSsrl6Call /\ pc = "s8_done") =>
          /\ \A k \in S8StepStarts(dest) :
                 LET E == S8StepEnergy(dest, k)
                 IN  <<dest[k], dest[k + 1], dest[k + 2]>>
                       = <<Moveto("energy", E),
                           Moveto("zpz", Position(args.zoneplate, E).z),
                           Moveto("detz", Position(args.detector, E).z)>>
          /\ \A k \in CollectLines(dest) :
                 LET s == LastBefore(dest, k, IsEnergyMove)
                 IN  /\ s \in S8StepStarts(dest)
                     /\ dest[k].file.energy = EnergyStr(S8StepEnergy(dest, s))
                     /\ LastBefore(dest, k, IsOpticMove) = s + 2

\* a finished ABBA sector8 run whose optics differ from one energy to the next
C20_Witness ==
    /\ ~IsSsrl6Call /\ pc = "s8_done" /\ args.abba_mode
    /\ Len(args.edge_energies) >= 2 /\ Len(args.sample_positions) >= 2
    /\ \E k \in S8StepStarts(dest) : \E j \in S8StepStarts(dest) :
           dest[k + 2] # dest[j + 2]

(***************************************************************************)
(* The blocks of collects of ssrl6_xanes_script (under Spec).              *)
(***************************************************************************)
\* the lines where a block of consecutive collects starts, and where the
\* block that starts at line k ends
BlockStarts(d) == {k \in CollectLines(d) : k = 1 \/ ~IsCollect(d[k - 1])}
BlockEnd(d, k) ==
    SetMin({j \in k..Len(d) : j = Len(d) \/ ~IsCollect(d[j + 1])})

\* where the stage is for a file: the reference or the sample position
FileLocation(f) ==
    IF f.kind = "ref" THEN args.reference_position ELSE args.positions[f.fov + 1]

\* C21: in a finished run every block of collects follows the moves of x, y, z
\* to its location (the last stage moves before it, no collect between) and
\* then setexp and setbinning; it holds repetitions (sample) or
\* ref_repetitions (reference) collects of one file family, counters 0, 1,
\* ..., total-1 in order, the total being that count
C21_CollectBlocks ==
    Done =>
        \A k \in BlockStarts(dest) :
            LET e     == BlockEnd(dest, k)
                f     == dest[k].file
                count == IF f.kind = "ref" THEN args.ref_repetitions
                         ELSE args.repetitions
                m     == LastBefore(dest, k, IsStageMove)
            IN  /\ k > 2
                /\ <<dest[k - 2], dest[k - 1]>>
                       = ExposureStr(args.exposure, args.binning)
                /\ m >= 3 /\ m < k - 2
                /\ <<dest[m - 2], dest[m - 1], dest[m]>>
                       = PosTemplate(FileLocation(f))
                /\ \A j \in m..k - 1 : ~IsCollect(dest[j])
                /\ e - k + 1 = count
                /\ \A j \in k..e :
                       dest[j].file = [f EXCEPT !.ctr = j - k, !.total = count]

\* a finished ABBA run with blocks of two or more collects of both kinds
C21_Witness ==
    /\ Done /\ args.repetitions >= 2 /\ args.ref_repetitions >= 2
    /\ Len(args.positions) >= 2 /\ Len(args.edge_energies) >= 2
    /\ args.abba_mode

\* the wait lines of the energy step that starts at line i
StepWaits(d, i) == {k \in i..PartEnd(d, i) : d[k].op = "wait"}

\* C22: in a finished run with frame_rest > 0 every energy step holds exactly
\* one wait, of frame_rest seconds, right after the moves to the reference
\* position and before the first reference collect, and none after the
\* reference collects; with frame_rest = 0 no energy step holds a wait
C22_FrameRestBeforeReference ==
    Done =>
        \A i \in StepStarts(dest) :
            LET W == StepWaits(dest, i)
                j == PartEnd(dest, i)
            IN  IF args.frame_rest > 0
                THEN /\ Cardinality(W) = 1
                     /\ \A w \in W :
                            /\ IsWait(dest[w], args.frame_rest)
                            /\ <<dest[w - 3], dest[w - 2], dest[w - 1]>>
                                   = PosTemplate(args.reference_position)
                            /\ IsCmt(dest[w - 4], "Move to reference position")
                            /\ \A r \in RefCollects(dest, i, j) : w < r
                            /\ RefCollects(dest, i, j) # {}
                ELSE W = {}

\* a finished run with frame_rest > 0 over two or more energies and positions
C22_Witness ==
    /\ Done /\ args.frame_rest > 0
    /\ Len(args.edge_energies) >= 2 /\ Len(args.positions) >= 2
    /\ Len(args.iterations) >= 2

(***************************************************************************)
(* The traversal of the sample positions by sector8_xanes_script (under    *)
(* S8Spec).                                                                *)
(***************************************************************************)
\* the step that starts at line k is the n-th (from 1) of its iteration
S8StepOrdinal(d, k) ==
    LET m == Cardinality({j \in S8StepStarts(d) : j <= k})
    IN  ((m - 1) % Len(args.edge_energies)) + 1

\* the collect lines of the step that starts at line k, in order
S8StepCollects(d, k) ==
    LET later == {j \in S8StepStarts(d) : j > k}
              \cup {j \in (k + 1)..Len(d) : IsEnergyMove(d[j])}
        e     == IF later = {} THEN Len(d) ELSE SetMin(later) - 1
    IN  SelectSeq(SubSeq(d, k, e), IsCollect)

\* the stage moves on the three lines before line c
MovesBefore(d, c) == <<d[c - 3], d[c - 2], d[c - 1]>>

\* C23: in a finished run the names of the collects of a step are names in
\* order on every step without abba_mode and on the 1st, 3rd, ... step of
\* every iteration with it, and names reversed on the 2nd, 4th, ... step with
\* it; and every collect named names[p] follows the moves to
\* sample_positions[p]
C23_TraversalAlternates ==
    S8Done =>
        /\ \A k \in S8StepStarts(dest) :
               LET c       == S8StepCollects(dest, k)
                   forward == [p \in 1..Len(args.names) |-> args.names[p]]
                   found   == [p \in 1..Len(c) |-> c[p].file.name]
               IN  IF args.abba_mode /\ S8StepOrdinal(dest, k) % 2 = 0
                   THEN found = Reverse(forward)
                   ELSE found = forward
        /\ \A c \in CollectLines(dest) :
               \A p \in 1..Len(args.names) :
                   dest[c].file.name = args.names[p] =>
                       MovesBefore(dest, c) = PosTemplate(args.sample_positions[p])

\* a finished ABBA run of two or more iterations over an odd number of
\* energies, three or more, and two or more positions
C23_Witness ==
    /\ S8Done /\ args.abba_mode
    /\ Len(args.iterations) >= 2 /\ Len(args.sample_positions) >= 2
    /\ Len(args.edge_energies) >= 3 /\ Len(args.edge_energies) % 2 = 1

(***************************************************************************)
(* The two files of ssrl6_xanes_script side by side (under Spec).          *)
(***************************************************************************)
\* the sequences p and q hold the same elements, each as often
SameBag(p, q) ==
    /\ Len(p) = Len(q)
    /\ \A i \in 1..Len(p) : Occurrences(p, p[i]) = Occurrences(q, p[i])

\* C24: between energy steps (every state once the file is open) the file
\* names in ScanInfo are, as a multiset, the file names of the collect lines
\* of the script
C24_StreamsInLockStep ==
    scaninfo_file # "none" =>
        SameBag(ScanInfoFiles(scaninfo), CollectFiles(dest))

\* an ABBA run stands after an energy step that wrote the reference last:
\* the two files list the same names in different orders
C24_Witness ==
    /\ pc \in {"energy", "park"} /\ args.abba_mode
    /\ Len(args.positions) >= 2 /\ args.repetitions >= 2
    /\ ScanInfoFiles(scaninfo) # CollectFiles(dest)

(***************************************************************************)
(* ssrl6_xanes_script when a write to one of its two files fails during an *)
(* energy step.  The body makes its write calls one by one, with nothing   *)
(* around them: the exception of a failed call ends the function and what  *)
(* the earlier calls wrote stays.                                          *)
(***************************************************************************)
ToDest(lines) == [to |-> "dest", lines |-> lines]
ToInfo(lines) == [to |-> "scaninfo", lines |-> lines]

\* the write calls of the sample loop for the idx-th (from 0) element of
\* pos_list, in the order they are made
SampleWrites(a, name, E, first, idx) ==
    LET pos_list == PosList(a.positions, first)
        sam_pos  == pos_list[idx + 1]
        pos_idx  == PosIdx(first, idx, Len(pos_list))
        files    == SamFiles(a, name, E, pos_idx)
    IN  << ToDest(<<CmtN("Move to sample position", pos_idx)>>),
           ToDest(PosTemplate(sam_pos)),
           ToDest(<<CmtN("Collect frames sample position", pos_idx)>>),
           ToDest(ExposureStr(a.exposure, a.binning)) >>
        \o Flatten([rep \in 1..a.repetitions |->
                      <<ToDest(<<Collect(files[rep])>>), ToInfo(<<InfoFile(files[rep])>>)>>])

\* the write calls of one pass of the energy loop, in the order they are made
StepWrites(a, name, E, first) ==
    LET zp_pos == Position(a.zoneplate, E)
        ref_s  == RefBlock(a, name, E, first)
    IN  << ToDest(<<Cmt("set the MONO and the ZP")>>), ToDest(<<Sete(E)>>),
           ToDest(<<Moveto("zpx", zp_pos.x)>>), ToDest(<<Moveto("zpy", zp_pos.y)>>),
           ToDest(<<Moveto("zpz", zp_pos.z)>>) >>
        \o [rep \in 1..a.ref_repetitions |->
               ToInfo(<<InfoFile(RefFiles(a, name, E)[rep])>>)]
        \o (IF first THEN <<ToDest(ref_s)>> ELSE <<>>)
        \o Flatten([k \in 1..Len(a.positions) |-> SampleWrites(a, name, E, first, k - 1)])
        \o (IF ~first THEN <<ToDest(ref_s)>> ELSE <<>>)

\* what the first n of the write calls ws put into the file named sink
Written(ws, n, sink) ==
    Flatten([k \in 1..n |-> IF ws[k].to = sink THEN ws[k].lines ELSE <<>>])

\* one pass of the body in which the write call after the first n raises
EnergyStepFails ==
    /\ pc = "energy"
    /\ LET ws == StepWrites(args, fs_name, args.edge_energies[en], ref_first)
       IN  \E n \in 0..(Len(ws) - 1) :
               /\ dest' = dest \o Written(ws, n, "dest")
               /\ scaninfo' = scaninfo \o Written(ws, n, "scaninfo")
    /\ raised' = "OSError"
    /\ pc' = "raised"
    /\ UNCHANGED <<args, scaninfo_file, it, en, fs_name, ref_first>>
    /\ UNCHANGED <<reverse_positions, prior>>
    /\ UNCHANGED zp_vars
    /\ UNCHANGED plot_vars

FailInit ==
    /\ args \in SeqArgSets
    /\ pc = "start"
    /\ dest = <<>>
    /\ scaninfo = <<>>
    /\ scaninfo_file = "none"
    /\ it = 0
    /\ en = 0
    /\ fs_name = ""
    /\ ref_first = TRUE
    /\ raised = ""
    /\ reverse_positions = FALSE
    /\ prior = <<>>
    /\ ZpIdle
    /\ PlotIdle

FailNext == Start \/ IterBegin \/ EnergyStep \/ EnergyStepFails \/ Park \/ Finish

FailSpec == FailInit /\ [][FailNext]_vars

\* the write calls of a pass put together are what the pass writes
StepWritesAreTheStep ==
    pc = "energy" =>
        LET E  == args.edge_energies[en]
            ws == StepWrites(args, fs_name, E, ref_first)
        IN  /\ Written(ws, Len(ws), "dest") = EnergyLines(args, fs_name, E, ref_first)
            /\ Written(ws, Len(ws), "scaninfo") = EnergyInfo(args, fs_name, E, ref_first)

\* C25: an energy step, whether it ends well or in a failed write, leaves in
\* the script and in ScanInfo either all of its block or none of it
C25_StepAllOrNothing ==
    [][pc = "energy" =>
          LET E == args.edge_energies[en]
          IN  \/ /\ dest' = dest
                 /\ scaninfo' = scaninfo
              \/ /\ dest' = dest \o EnergyLines(args, fs_name, E, ref_first)
                 /\ scaninfo' = scaninfo \o EnergyInfo(args, fs_name, E, ref_first)]_vars

(***************************************************************************)
(* Travel of the stage across an energy change (under Spec).               *)
(***************************************************************************)
\* where the stage is when line k is executed: the last x, y, z moves before
StageAt(d, k) ==
    LET m == LastBefore(d, k, IsStageMove) IN <<d[m - 2], d[m - 1], d[m]>>

\* C26: in a finished abba_mode run, for every energy step but the first of
\* its iteration, the stage is at the same place for the last collect of the
\* step before and for the first collect of the step (both steps collect)
C26_NoTravelAcrossEnergyChange ==
    (Done /\ args.abba_mode) =>
        \A i \in StepStarts(dest) :
            StepOrdinal(dest, i) > 1 =>
                LET p      == SetMax({j \in StepStarts(dest) : j < i})
                    before == {k \in CollectLines(dest) : p < k /\ k < i}
                    after  == {k \in CollectLines(dest) : i < k /\ k <= PartEnd(dest, i)}
                IN  /\ before # {} /\ after # {}
                    /\ StageAt(dest, SetMax(before)) = StageAt(dest, SetMin(after))

\* a finished abba_mode run over three energies and two distinct sample
\* positions
C26_Witness ==
    /\ Done /\ args.abba_mode /\ Len(args.edge_energies) >= 3
    /\ Len(args.positions) = 2
    /\ \E k \in CollectLines(dest) : \E j \in CollectLines(dest) :
           StageAt(dest, k) # StageAt(dest, j) /\ dest[k].file.kind = "sam"
                                               /\ dest[j].file.kind = "sam"

(***************************************************************************)
(* Every frame once (under Spec).                                          *)
(***************************************************************************)
\* the frames of a run: for every iteration and energy the reference frames
\* and, for every position, the sample frames
FramesOf(a) ==
    Flatten([i \in 1..Len(a.iterations) |->
      Flatten([e \in 1..Len(a.edge_energies) |->
        [rep \in 1..a.ref_repetitions |->
            RefTemplate(a.iterations[i], a.edge_energies[e], rep - 1,
                        a.ref_repetitions)]
        \o Flatten([p \in 1..Len(a.positions) |->
             [rep \in 1..a.repetitions |->
                 SamTemplate(a.iterations[i], p - 1, a.edge_energies[e],
                             rep - 1, a.repetitions)]])])])

\* C27: a finished run holds |iterations| x |energies| x (ref_repetitions +
\* |positions| x repetitions) collects, and every frame is collected as often
\* as the iterations and energies list it (once when they list it once)
C27_EveryFrameOnce ==
    Done =>
        /\ Cardinality(CollectLines(dest))
               = Len(args.iterations) * Len(args.edge_energies)
                 * (args.ref_repetitions + Len(args.positions) * args.repetitions)
        /\ SameBag(FramesOf(args), CollectFiles(dest))

\* a finished abba_mode run with reversed walks and deferred references
C27_Witness ==
    /\ Done /\ args.abba_mode /\ Len(args.edge_energies) >= 2
    /\ Len(args.positions) >= 2 /\ Len(args.iterations) >= 2
    /\ args.repetitions >= 2 /\ args.ref_repetitions >= 2
    /\ \E i \in StepStarts(dest) : RefAfterSamples(dest, i)

(***************************************************************************)
(* The file names as text.  ref_template and sam_template put the fields   *)
(* of a name one after the other; an identifier is any text, kept here as  *)
(* the sequence of its characters.                                         *)
(***************************************************************************)
DigitChars == <<"0", "1", "2", "3", "4", "5", "6", "7", "8", "9">>

RECURSIVE Digits(_)
\* '{:d}' of a natural number
Digits(n) ==
    IF n < 10 THEN <<DigitChars[n + 1]>>
    ELSE Digits(n \div 10) \o <<DigitChars[(n % 10) + 1]>>

\* zeros in front of q up to the width
ZeroPad(q, width) == [i \in 1..(width - Len(q)) |-> "0"] \o q

\* '{:03d}' of a counter
Counter(n) == ZeroPad(Digits(n), 3)

\* '{:07.1f}' of an energy, from its sign and its tenths
EnergyText(v) ==
    LET body == Digits(v.n \div 10) \o <<".">> \o Digits(v.n % 10)
    IN  IF v.neg THEN <<"-">> \o ZeroPad(body, 6) ELSE ZeroPad(body, 7)

\* the text of a file name (without the end of line)
XrmName(f) ==
    LET tail == <<"_">> \o EnergyText(f.energy) \o <<"_", "e", "V", "_">>
                \o Counter(f.ctr) \o <<"o", "f">> \o Counter(f.total)
                \o <<".", "x", "r", "m">>
    IN  IF f.kind = "ref" THEN <<"r", "e", "f", "_">> \o f.name \o tail
        ELSE f.name \o <<"_", "f", "o", "v">> \o Digits(f.fov) \o tail

\* identifiers of iterations, as text
IterIdents == {<<"a">>, <<"r", "e", "f">>, <<"f", "o", "v", "0">>}
NameIterationLists == UNION {[1..n -> IterIdents] : n \in 1..MaxIterations}

\* energies all different, and two that differ by 1/64 eV
NameEnergyLists ==
    { <<DyInt(8950)>>, <<DyInt(8950), DyInt(8980)>>,
      <<DyInt(8950), FAdd(DyInt(8950), DyPow2(-6))>> }

NameArgSets ==
    [ edge_energies      : NameEnergyLists,
      zoneplate          : {ScriptZoneplate},
      positions          : PositionLists,
      reference_position : {ReferencePoint},
      iterations         : NameIterationLists,
      iteration_rest     : {0},
      frame_rest         : {0, 3},
      binning            : {2},
      exposure           : {DyPow2(-1)},
      repetitions        : {1, MaxReps},
      ref_repetitions    : {MaxReps},
      abba_mode          : BOOLEAN ]

NameInit ==
    /\ args \in NameArgSets
    /\ pc = "start"
    /\ dest = <<>>
    /\ scaninfo = <<>>
    /\ scaninfo_file = "none"
    /\ it = 0
    /\ en = 0
    /\ fs_name = <<>>
    /\ ref_first = TRUE
    /\ raised = ""
    /\ reverse_positions = FALSE
    /\ prior = <<>>
    /\ ZpIdle
    /\ PlotIdle

NameSpec == NameInit /\ [][Next]_vars

\* no two elements of the sequence q are equal
Distinct(q) == \A i \in 1..Len(q) : \A j \in 1..Len(q) : i # j => q[i] # q[j]

\* the energies as the file names show them
ShownEnergies == [i \in 1..Len(args.edge_energies) |-> FmtFixed(args.edge_energies[i], 1)]

\* the texts of the file names of the collect lines, in order
CollectedNames == [i \in 1..Len(CollectFiles(dest)) |-> XrmName(CollectFiles(dest)[i])]

\* the identifier is 'ref' or starts with 'ref_'
ReadsAsReference(name) ==
    \/ name = <<"r", "e", "f">>
    \/ Len(name) >= 4 /\ SubSeq(name, 1, 4) = <<"r", "e", "f", "_">>

\* C28 as stated: with the identifiers pairwise distinct and the energies
\* pairwise distinct to 0.1 eV, the file names collected in a finished run
\* are pairwise distinct
C28_NamesDistinct ==
    (Done /\ Distinct(args.iterations) /\ Distinct(ShownEnergies)) =>
        Distinct(CollectedNames)

\* C28: with the identifiers pairwise distinct, none of them 'ref' or
\* starting with 'ref_', and the energies pairwise distinct to 0.1 eV, the
\* file names collected in a finished run are pairwise distinct
C28_NamesDistinctUnlessRef ==
    (/\ Done /\ Distinct(args.iterations) /\ Distinct(ShownEnergies)
     /\ \A i \in 1..Len(args.iterations) : ~ReadsAsReference(args.iterations[i])) =>
        Distinct(CollectedNames)

\* a finished run of two iterations 'a' and 'fov0' over two energies, with
\* sample positions and repeated frames of both kinds
C28_Witness ==
    /\ Done /\ Len(args.iterations) >= 2 /\ Distinct(args.iterations)
    /\ \A i \in 1..Len(args.iterations) : ~ReadsAsReference(args.iterations[i])
    /\ Len(args.edge_energies) >= 2 /\ Distinct(ShownEnergies)
    /\ Len(args.positions) >= 1
    /\ args.repetitions >= 2 /\ args.ref_repetitions >= 2

(***************************************************************************)
(* The model built from a z step, and the two-point model of two points at *)
(* one energy (under PosSpec).                                             *)
(***************************************************************************)
ZStepModel == Built /\ zp_args.z_step # None

\* C29: a model built from start and a z step returns, at every energy e it
\* is asked for, x = start.x, y = start.y and
\* z = start.z + z_step * (e - start.energy), as the floats compute it
C29_ZStepMovesOnlyZ ==
    ZStepModel =>
        \A e \in DOMAIN zp_calls :
            /\ zp_calls[e].x = zp_args.start.x
            /\ zp_calls[e].y = zp_args.start.y
            /\ zp_calls[e].z
                   = FAdd(zp_args.start.z,
                          FMul(zp_args.z_step[1], FSub(e, zp_args.start.energy)))

\* a z-step model with x off zero, asked at energies where z differs
C29_Witness ==
    /\ ZStepModel /\ zp_args.start.x # DyZero
    /\ \E e \in DOMAIN zp_calls : \E f \in DOMAIN zp_calls :
           zp_calls[e].z # zp_calls[f].z

\* the value is a number (not an infinity)
IsFinite(v) == DOMAIN v = {"neg", "m", "e"}

MaxPlotCalls == 4

\* the event sources a viewer connects
EventSources == {"slider", "timer"}

\* FrameAnimation(fig, artists=[], event_source, blit=True)
FrameAnimation(event_source) ==
    [event_source |-> event_source, artists |-> "none", stopped |-> FALSE]

\* animation.stop(), on the i-th animation made
Stop(anims, i) == [anims EXCEPT ![i].stopped = TRUE]

\* seeded fault: the old animation is replaced without being stopped
StopOld_Keeps(anims, fa) == anims

\* connect_animation: "if hasattr(self, 'frame_animation'): ....stop()"
StopOld(anims, fa) == IF fa # None THEN Stop(anims, fa[1]) ELSE anims

PlotInit ==
    /\ ScriptIdle
    /\ ZpIdle
    /\ PlotIdle

\* plotter.create_axes()
CreateAxes ==
    /\ Len(plot_log) < MaxPlotCalls
    /\ has_axes' = TRUE
    /\ plot_raised' = ""
    /\ plot_log' = Append(plot_log, "create_axes")
    /\ UNCHANGED <<frame_animation, animations>>
    /\ UNCHANGED script_vars
    /\ UNCHANGED zp_vars

\* plotter.connect_animation(event_source); refresh_artists needs the axes
\* (AttributeError without them) and reads the frames from the store, which
\* may fail; when it succeeds it hands the artists to the new animation
ConnectAnimation ==
    /\ Len(plot_log) < MaxPlotCalls
    /\ \E event_source \in EventSources :
       \E readable \in BOOLEAN :
           LET stopped == StopOld(animations, frame_animation)
               made    == Append(stopped, FrameAnimation(event_source))
               n       == Len(made)
           IN  /\ frame_animation' = Some(n)
               /\ IF ~has_axes
                  THEN /\ animations' = made
                       /\ plot_raised' = "AttributeError"
                  ELSE IF ~readable
                  THEN /\ animations' = made
                       /\ plot_raised' = "OSError"
                  ELSE /\ animations' = [made EXCEPT ![n].artists = "frames"]
                       /\ plot_raised' = ""
    /\ plot_log' = Append(plot_log, "connect_animation")
    /\ UNCHANGED has_axes
    /\ UNCHANGED script_vars
    /\ UNCHANGED zp_vars

\* plotter.destroy(); image_ax.clear() raises without the axes, after the
\* animation is gone
Destroy ==
    /\ Len(plot_log) < MaxPlotCalls
    /\ IF frame_animation # None
       THEN /\ animations' = Stop(animations, frame_animation[1])
            /\ frame_animation' = None
       ELSE UNCHANGED <<frame_animation, animations>>
    /\ plot_raised' = IF has_axes THEN "" ELSE "AttributeError"
    /\ plot_log' = Append(plot_log, "destroy")
    /\ UNCHANGED has_axes
    /\ UNCHANGED script_vars
    /\ UNCHANGED zp_vars

PlotNext == CreateAxes \/ ConnectAnimation \/ Destroy

PlotSpec == PlotInit /\ [][PlotNext]_vars

\* the animations made so far that were never stopped
Unstopped == {i \in 1..Len(animations) : ~animations[i].stopped}

\* C31: at most one animation made by the plotter is not stopped, and that
\* one is the plotter's frame_animation; right after destroy the plotter has
\* no frame_animation and no animation is left running
C31_AtMostOneRunning ==
    /\ Cardinality(Unstopped) <= 1
    /\ \A i \in Unstopped : frame_animation = Some(i)
    /\ (plot_log # <<>> /\ plot_log[Len(plot_log)] = "destroy") =>
           frame_animation = None /\ Unstopped = {}

\* three animations were connected, with a destroy in between, and the last
\* one runs
C31_Witness ==
    /\ Len(animations) >= 3
    /\ Unstopped = {Len(animations)}
    /\ \E k \in 1..Len(plot_log) : plot_log[k] = "destroy"

====
